---------------------------- MODULE Spec2Model ----------------------------
(***************************************************************************)
(* SkyRoads: the per-frame ship/track model of the Game controller object. *)
(*                                                                         *)
(* Two revisions of the controller are modelled side by side:              *)
(*   G1_*  the first class of src/game.js                                  *)
(*   P0_*  the class of src/unnamed/part_000 (tunnels, explosion, restart  *)
(*         by Space)                                                       *)
(*                                                                         *)
(* Numbers.  Lengths, heights and velocities are decimal fractions in the  *)
(* source (0.2, 4.5, 1.75, 0.01, ...).  The model keeps them as integers   *)
(* in thousandths of a unit (0.2 -> 200, 4.5 -> 4500), so every sum and    *)
(* comparison of the source is computed exactly in decimal arithmetic.     *)
(* The only product that does not stay on this grid is the tunnel          *)
(* centring x*0.9 + c*0.1 of part_000, which is rounded down to the grid.  *)
(*                                                                         *)
(* Text.  A level text is a sequence of one-character strings; "\n" is the *)
(* line break.                                                             *)
(***************************************************************************)
EXTENDS Integers, Sequences, FiniteSets, TLC

VARIABLES
    rev,        \* which revision runs: "G1" (game.js, first class) or "P0" (part_000)
    game,       \* the fields of the Game object (`this')
    fetchState, \* the promise of fetch() in loadLevel: "pending", "resolved", "rejected"
    response,   \* the level text the server holds (what response.text() yields)
    keysLeft,   \* key events the environment may still deliver (bound of the model)
    lastOp,     \* history: the handler that ran last
    pre,        \* history: the ship fields as they were when that handler started
    loadTrack,  \* history: the track list as the level load left it
    overFrames  \* history: frames run since the game was last over (bound of the model)

vars == <<rev, game, fetchState, response, keysLeft, lastOp, pre, loadTrack, overFrames>>

----------------------------------------------------------------------------
(* Bounds of the model *)

\* key events (keydown, keyup) delivered in one run
MaxKeyEvents == 2

\* animation frames followed while the game stays over
MaxOverFrames == 3

\* rows of a level text handed to the track builder alone
MaxParseRows == 2

\* frames of a running game followed in the two earliest revisions, which
\* have no end of the track
MaxEarlyFrames == 70

\* leading cells of the random track of part_001 that may come out as gaps
MaxGapCells == 2

----------------------------------------------------------------------------
(* Arithmetic helpers *)

Abs(n) == IF n < 0 THEN 0 - n ELSE n

\* Math.max / Math.min
Max(a, b) == IF a > b THEN a ELSE b
Min(a, b) == IF a < b THEN a ELSE b

\* new THREE.Vector3(x, y, z)
Vector3(a, b, c) == [x |-> a, y |-> b, z |-> c]

----------------------------------------------------------------------------
(* Level text: String.prototype.trim / split / includes / padEnd / slice *)

NL == "\n"
Digits == {"0", "1", "2", "3", "4", "5", "6", "7", "8", "9"}
WhiteSpace == {" ", NL}

RECURSIVE TrimStart(_)
TrimStart(s) ==
    IF s # <<>> /\ Head(s) \in WhiteSpace THEN TrimStart(Tail(s)) ELSE s

RECURSIVE TrimEnd(_)
TrimEnd(s) ==
    IF s # <<>> /\ s[Len(s)] \in WhiteSpace
    THEN TrimEnd(SubSeq(s, 1, Len(s) - 1)) ELSE s

\* text.trim()
Trim(s) == TrimEnd(TrimStart(s))

\* text.split('\n'): always at least one row, possibly empty
RECURSIVE SplitLines(_, _)
SplitLines(s, cur) ==
    IF s = <<>> THEN <<cur>>
    ELSE IF Head(s) = NL THEN <<cur>> \o SplitLines(Tail(s), <<>>)
    ELSE SplitLines(Tail(s), Append(cur, Head(s)))

\* row.includes('<')
IncludesLt(row) == \E i \in 1..Len(row) : row[i] = "<"

\* rows.filter(row => !row.includes('<'))
RECURSIVE FilterMarkers(_)
FilterMarkers(rows) ==
    IF rows = <<>> THEN <<>>
    ELSE IF IncludesLt(Head(rows)) THEN FilterMarkers(Tail(rows))
    ELSE <<Head(rows)>> \o FilterMarkers(Tail(rows))

\* rows.reverse()
Reverse(rows) == [i \in 1..Len(rows) |-> rows[Len(rows) + 1 - i]]

\* row.padEnd(n, ' ').slice(0, n)
PadSlice(row, n) == [i \in 1..n |-> IF i <= Len(row) THEN row[i] ELSE " "]

\* the rows generateTrackFromLevel walks, file-bottom first
LevelRows(levelData) == Reverse(FilterMarkers(SplitLines(Trim(levelData), <<>>)))

----------------------------------------------------------------------------
(* Program constants, in thousandths *)

trackWidth == 7
segmentHeight == 200
ColumnStep == 3500
RowStep == 4500
HalfWidth == 1750
HalfDepth == 2250
FloorLimit == 0 - 5000

\* getBlockHeight(block)
getBlockHeight(block) ==
    IF block \in {"5", "6"} THEN 100
    ELSE IF block \in {"7", "8"} THEN 1000
    ELSE 200

\* a block of the track list: a Mesh on the shared unit box geometry
\* (position, scale, userData flags); cylinder: geometry instanceof CylinderGeometry
Segment(block, px, py, pz, sy, floor, top) ==
    [block |-> block, px |-> px, py |-> py, pz |-> pz,
     sx |-> ColumnStep, sy |-> sy, sz |-> RowStep,
     isTunnelBlock |-> floor, isTunnelTop |-> top, cylinder |-> FALSE]

\* G1 tunnel: a THREE.Group (scale 1,1,1, no geometry of its own)
TunnelGroup(block, px, py, pz) ==
    [block |-> block, px |-> px, py |-> py, pz |-> pz,
     sx |-> 1000, sy |-> 1000, sz |-> 1000,
     isTunnelBlock |-> FALSE, isTunnelTop |-> FALSE, cylinder |-> FALSE]

\* segment.position.y + segment.scale.y
SegmentTop(s) == s.py + s.sy

----------------------------------------------------------------------------
(* Track Builder: generateTrackFromLevel *)

\* the test that skips a cell: space, dot, or anything /[0-9]/ does not match
SkipCell(block) == block = " " \/ block = "." \/ block \notin Digits

\* mutant of the part_000 cell code: a tunnel cell pushes its floor block only
P0_Cell_floorOnly(block, columnIndex, index) ==
    LET x == (columnIndex - 3) * ColumnStep
        z == 0 - index * RowStep
        h == getBlockHeight(block)
    IN  IF SkipCell(block) THEN <<>>
        ELSE <<Segment(block, x, h, z, h, block \in {"5", "6"}, FALSE)>>

\* game.js, first class: what one cell pushes on this.track
G1_Cell(block, columnIndex, index) ==
    LET x == (columnIndex - 3) * ColumnStep
        z == 0 - index * RowStep
        h == getBlockHeight(block)
    IN  IF SkipCell(block) THEN <<>>
        ELSE IF block \in {"5", "6"} THEN <<TunnelGroup(block, x, h, z)>>
        ELSE <<Segment(block, x, h, z, h, FALSE, FALSE)>>

\* part_000: a tunnel cell pushes its floor block and its invisible top block
\* (the visual tunnel group goes to the scene only)
P0_Cell(block, columnIndex, index) ==
    LET x == (columnIndex - 3) * ColumnStep
        z == 0 - index * RowStep
        h == getBlockHeight(block)
        tunnelHeight == 3500
    IN  IF SkipCell(block) THEN <<>>
        ELSE IF block \in {"5", "6"}
             THEN <<Segment(block, x, h, z, h, TRUE, FALSE),
                    Segment(block, x, h + tunnelHeight, z, 100, FALSE, TRUE)>>
        ELSE <<Segment(block, x, h, z, h, FALSE, FALSE)>>

\* the cell code of the revision that runs
Cell(r, block, columnIndex, index) ==
    IF r = "G1" THEN G1_Cell(block, columnIndex, index)
    ELSE P0_Cell(block, columnIndex, index)

\* blocks.forEach over the 7 columns of one padded row
RECURSIVE RowEntries(_, _, _, _)
RowEntries(r, blocks, index, columnIndex) ==
    IF columnIndex >= Len(blocks) THEN <<>>
    ELSE Cell(r, blocks[columnIndex + 1], columnIndex, index)
         \o RowEntries(r, blocks, index, columnIndex + 1)

\* rows.forEach
RECURSIVE RowsEntries(_, _, _)
RowsEntries(r, rows, index) ==
    IF index >= Len(rows) THEN <<>>
    ELSE RowEntries(r, PadSlice(rows[index + 1], trackWidth), index, 0)
         \o RowsEntries(r, rows, index + 1)

\* generateTrackFromLevel(): the new value of this.track (entries are pushed
\* on the list as it is); levelData = <<>> stands for null and for "", the
\* two values `!this.levelData' stops on
generateTrackFromLevel(r, track, levelData) ==
    IF levelData = <<>> THEN track
    ELSE track \o RowsEntries(r, LevelRows(levelData), 0)

----------------------------------------------------------------------------
(* Helpers shared by the revisions' collision loops *)

\* the first index of a `for (const segment of this.track)' loop that reaches
\* its break, given the indices whose test succeeds; 0: the loop runs out
First(S) == IF S = {} THEN 0 ELSE CHOOSE i \in S : \A j \in S : i <= j

\* dx < 1.75 && dz < 2.25, measured from the ship centre c
UnderFoot(s, c) == Abs(c.x - s.px) < HalfWidth /\ Abs(c.z - s.pz) < HalfDepth

----------------------------------------------------------------------------
(* game.js, first class *)

\* the fields the constructor sets (lines 27-51)
G1_fields ==
    [shipPosition |-> Vector3(0, 200, 0), shipRotation |-> 0,
     shipVelocity |-> Vector3(0, 0, 0), isJumping |-> FALSE, jumpVelocity |-> 0,
     gameSpeed |-> 400, forwardSpeed |-> 200, gameOver |-> FALSE,
     leftKeyPressed |-> FALSE, rightKeyPressed |-> FALSE, isInTunnel |-> FALSE,
     levelData |-> <<>>, track |-> <<>>]

\* mutant of checkCollisions: the floor threshold is not tested
G1_checkCollisions_noFloor(t, shipCenter) ==
    IF Abs(t.shipPosition.x) * 10 > trackWidth * 1000 * 15
    THEN [t EXCEPT !.gameOver = TRUE]
    ELSE IF ~t.isJumping
              /\ ~\E i \in 1..Len(t.track) : UnderFoot(t.track[i], shipCenter)
    THEN [t EXCEPT !.isJumping = TRUE, !.jumpVelocity = 0 - 100]
    ELSE t

\* checkCollisions(shipCenter)
G1_checkCollisions(t, shipCenter) ==
    IF Abs(t.shipPosition.x) * 10 > trackWidth * 1000 * 15
    THEN [t EXCEPT !.gameOver = TRUE]
    ELSE IF t.shipPosition.y < FloorLimit
    THEN [t EXCEPT !.gameOver = TRUE]
    ELSE IF ~t.isJumping
    THEN LET radius == 2000
             OnIt(s) ==
                 IF s.cylinder
                 THEN LET dx == Abs(shipCenter.x - s.px)
                          dy == Abs(t.shipPosition.y - s.py)
                      IN  UnderFoot(s, shipCenter)
                          /\ (t.shipPosition.y >= s.py + 1800
                              \/ dx * dx + dy * dy <= radius * radius)
                 ELSE UnderFoot(s, shipCenter)
             isOnTrack == \E i \in 1..Len(t.track) : OnIt(t.track[i])
         IN  IF ~isOnTrack
             THEN [t EXCEPT !.isJumping = TRUE, !.jumpVelocity = 0 - 100]
             ELSE t
    ELSE t

\* mutant of restartGame: without level data a built-in row is used
G1_restartGame_fallback(t) ==
    [t EXCEPT !.gameOver = FALSE,
              !.shipRotation = 0,
              !.shipVelocity = Vector3(0, 0, 0),
              !.isJumping = FALSE,
              !.jumpVelocity = 0,
              !.track = generateTrackFromLevel("G1", <<>>, <<"1", "1", "1", "1">>),
              !.shipPosition = Vector3(0, segmentHeight, 0)]

\* restartGame()
G1_restartGame(t) ==
    [t EXCEPT !.gameOver = FALSE,
              !.shipRotation = 0,
              !.shipVelocity = Vector3(0, 0, 0),
              !.isJumping = FALSE,
              !.jumpVelocity = 0,
              !.track = generateTrackFromLevel("G1", <<>>, t.levelData),
              !.shipPosition = Vector3(0, segmentHeight, 0)]

\* mutant of the jump branch: one gravity term, rising or falling
G1_jumpStep_constantGravity(t, shipCenter) ==
    LET y1 == t.shipPosition.y + t.jumpVelocity
        v1 == t.jumpVelocity - 10
        hit == First({i \in 1..Len(t.track) :
                   /\ UnderFoot(t.track[i], shipCenter)
                   /\ y1 <= SegmentTop(t.track[i]) + 200
                   /\ y1 > SegmentTop(t.track[i]) - 500})
    IN  IF hit # 0
        THEN [t EXCEPT !.shipPosition.y = SegmentTop(t.track[hit]),
                       !.isJumping = FALSE,
                       !.jumpVelocity = 0]
        ELSE [t EXCEPT !.shipPosition.y = y1, !.jumpVelocity = v1]

\* mutant of the jump branch: a landing ship is not snapped to the segment top
G1_jumpStep_noSnap(t, shipCenter) ==
    LET y1 == t.shipPosition.y + t.jumpVelocity
        v1 == t.jumpVelocity - 10
        hit == First({i \in 1..Len(t.track) :
                   /\ UnderFoot(t.track[i], shipCenter)
                   /\ y1 <= SegmentTop(t.track[i]) + 200
                   /\ y1 > SegmentTop(t.track[i]) - 500})
    IN  IF hit # 0
        THEN [t EXCEPT !.shipPosition.y = y1,
                       !.isJumping = FALSE,
                       !.jumpVelocity = 0]
        ELSE [t EXCEPT !.shipPosition.y = y1,
                       !.jumpVelocity = IF v1 < 0 THEN v1 - 10 ELSE v1]

\* mutant of the jumping branch: a falling ship gains 0.3 per frame
G1_jumpStep_heavy(t, shipCenter) ==
    LET y1 == t.shipPosition.y + t.jumpVelocity
        v1 == t.jumpVelocity - 10
        hit == First({i \in 1..Len(t.track) :
                   /\ UnderFoot(t.track[i], shipCenter)
                   /\ y1 <= SegmentTop(t.track[i]) + 200
                   /\ y1 > SegmentTop(t.track[i]) - 500})
    IN  IF hit # 0
        THEN [t EXCEPT !.shipPosition.y = SegmentTop(t.track[hit]),
                       !.isJumping = FALSE,
                       !.jumpVelocity = 0]
        ELSE [t EXCEPT !.shipPosition.y = y1,
                       !.jumpVelocity = IF v1 < 0 THEN v1 - 300 ELSE v1]

\* updateShip, the `if (this.isJumping)' branch (lines 590-615): t is `this'
\* after the move, shipCenter its centre
G1_jumpStep(t, shipCenter) ==
    LET y1 == t.shipPosition.y + t.jumpVelocity
        v1 == t.jumpVelocity - 10
        hit == First({i \in 1..Len(t.track) :
                   /\ UnderFoot(t.track[i], shipCenter)
                   /\ y1 <= SegmentTop(t.track[i]) + 200
                   /\ y1 > SegmentTop(t.track[i]) - 500})
    IN  IF hit # 0
        THEN [t EXCEPT !.shipPosition.y = SegmentTop(t.track[hit]),
                       !.isJumping = FALSE,
                       !.jumpVelocity = 0]
        ELSE [t EXCEPT !.shipPosition.y = y1,
                       !.jumpVelocity = IF v1 < 0 THEN v1 - 10 ELSE v1]

\* mutant of the grounded branch: y is not set to the segment top
G1_groundStep_noSnap(t, shipCenter) ==
    LET on == First({i \in 1..Len(t.track) :
                  /\ UnderFoot(t.track[i], shipCenter)
                  /\ Abs(t.shipPosition.y - SegmentTop(t.track[i])) < 300})
    IN  IF on = 0
        THEN [t EXCEPT !.isJumping = TRUE, !.jumpVelocity = 0 - 100]
        ELSE t

\* mutant of the grounded branch: any segment under the ship lifts it
G1_groundStep_elevates(t, shipCenter) ==
    LET on == First({i \in 1..Len(t.track) : UnderFoot(t.track[i], shipCenter)})
    IN  IF on = 0
        THEN [t EXCEPT !.isJumping = TRUE, !.jumpVelocity = 0 - 100]
        ELSE [t EXCEPT !.shipPosition.y = SegmentTop(t.track[on])]

\* updateShip, the grounded branch (lines 616-641)
G1_groundStep(t, shipCenter) ==
    LET on == First({i \in 1..Len(t.track) :
                  /\ UnderFoot(t.track[i], shipCenter)
                  /\ Abs(t.shipPosition.y - SegmentTop(t.track[i])) < 300})
    IN  IF on = 0
        THEN [t EXCEPT !.isJumping = TRUE, !.jumpVelocity = 0 - 100]
        ELSE [t EXCEPT !.shipPosition.y = SegmentTop(t.track[on])]

\* mutant of the move: the ship is not carried forward
G1_move_parked(t) ==
    LET vx == (t.shipRotation * t.gameSpeed) \div 1000
    IN  [t EXCEPT !.shipVelocity.x = vx,
                  !.shipPosition.x = @ + vx]

\* updateShip, lines 579-584: lateral velocity, lateral and forward move
G1_move(t) ==
    LET vx == (t.shipRotation * t.gameSpeed) \div 1000
    IN  [t EXCEPT !.shipVelocity.x = vx,
                  !.shipPosition.x = @ + vx,
                  !.shipPosition.z = @ - t.forwardSpeed]

\* updateShip(); confirmOk is the answer to the confirm() dialog of a game over
G1_updateShip(t, confirmOk) ==
    IF t.gameOver
    THEN IF confirmOk THEN G1_restartGame(t) ELSE t
    ELSE LET m == G1_move(t)
             shipCenter == [m.shipPosition EXCEPT !.z = @ + 1000]
             n == IF m.isJumping THEN G1_jumpStep(m, shipCenter)
                  ELSE G1_groundStep(m, shipCenter)
         IN  G1_checkCollisions(n, shipCenter)

\* the keydown listener
G1_keydown(t, key) ==
    IF t.gameOver THEN t
    ELSE CASE key = "ArrowLeft" ->
                [t EXCEPT !.leftKeyPressed = TRUE, !.shipRotation = 0 - 250]
           [] key = "ArrowRight" ->
                [t EXCEPT !.rightKeyPressed = TRUE, !.shipRotation = 250]
           [] key = " " ->
                IF ~t.isJumping
                THEN [t EXCEPT !.isJumping = TRUE, !.jumpVelocity = 300]
                ELSE t
           [] OTHER -> t

\* the keyup listener
G1_keyup(t, key) ==
    CASE key = "ArrowLeft" ->
            [t EXCEPT !.leftKeyPressed = FALSE,
                      !.shipRotation = IF ~t.rightKeyPressed THEN 0 ELSE 250]
      [] key = "ArrowRight" ->
            [t EXCEPT !.rightKeyPressed = FALSE,
                      !.shipRotation = IF ~t.leftKeyPressed THEN 0 ELSE 0 - 250]
      [] OTHER -> t

\* loadLevel() after `await response.text()': lines 70-76
G1_loadLevel(t, text) ==
    LET d == [t EXCEPT !.levelData = text]
    IN  [d EXCEPT !.track = generateTrackFromLevel("G1", d.track, d.levelData),
                  !.shipPosition = Vector3(0, segmentHeight, 0)]

----------------------------------------------------------------------------
(* src/unnamed/part_000 *)

\* the fields the constructor sets (lines 27-83)
P0_fields ==
    [shipPosition |-> Vector3(0, 200, 0), shipRotation |-> 0,
     shipVelocity |-> Vector3(0, 0, 0), isJumping |-> FALSE, jumpVelocity |-> 0,
     gameSpeed |-> 600, forwardSpeed |-> 300, gameOver |-> FALSE,
     leftKeyPressed |-> FALSE, rightKeyPressed |-> FALSE, isInTunnel |-> FALSE,
     levelData |-> <<>>, track |-> <<>>,
     generation |-> 0, trackIds |-> <<>>, scene |-> {}]

\* the identity of an object a track generation creates: the call that made
\* it, whether it went on this.track, and its place among those
SceneObject(gen, kind, n) == [gen |-> gen, kind |-> kind, n |-> n]

\* this.generateTrackFromLevel() called on t (lines 408-525): the entries go
\* on this.track and into the scene (lines 449-450, 470-471, 520-521); for a
\* tunnel cell a visual group goes into the scene only (line 510)
P0_generate(t) ==
    LET gen == t.generation + 1
        made == generateTrackFromLevel("P0", <<>>, t.levelData)
        ids == [i \in 1..Len(made) |-> SceneObject(gen, "track", i)]
        groups == {SceneObject(gen, "group", i) :
                      i \in {j \in 1..Len(made) : made[j].isTunnelBlock}}
    IN  [t EXCEPT !.generation = gen,
                  !.track = generateTrackFromLevel("P0", t.track, t.levelData),
                  !.trackIds = @ \o ids,
                  !.scene = @ \cup {ids[i] : i \in 1..Len(ids)} \cup groups]

\* this.baseSpeed (lines 78-83)
baseSpeed == [forward |-> 350, rotation |-> 350, jump |-> 400, gravity |-> 15]

\* mutant of checkCollisions: the lateral bound is tested for a grounded ship only
P0_checkCollisions_groundedBound(t, shipCenter) ==
    IF ~t.isJumping /\ Abs(t.shipPosition.x) * 10 > trackWidth * 1000 * 15
    THEN [t EXCEPT !.gameOver = TRUE]
    ELSE IF t.shipPosition.y < FloorLimit
    THEN [t EXCEPT !.gameOver = TRUE]
    ELSE t

\* checkCollisions(shipCenter): as in game.js, plus the explosion effect
P0_checkCollisions(t, shipCenter) ==
    IF Abs(t.shipPosition.x) * 10 > trackWidth * 1000 * 15
    THEN [t EXCEPT !.gameOver = TRUE]
    ELSE IF t.shipPosition.y < FloorLimit
    THEN [t EXCEPT !.gameOver = TRUE]
    ELSE IF ~t.isJumping
    THEN LET radius == 2000
             OnIt(s) ==
                 IF s.cylinder
                 THEN LET dx == Abs(shipCenter.x - s.px)
                          dy == Abs(t.shipPosition.y - s.py)
                      IN  UnderFoot(s, shipCenter)
                          /\ (t.shipPosition.y >= s.py + 1800
                              \/ dx * dx + dy * dy <= radius * radius)
                 ELSE UnderFoot(s, shipCenter)
             isOnTrack == \E i \in 1..Len(t.track) : OnIt(t.track[i])
         IN  IF ~isOnTrack
             THEN [t EXCEPT !.isJumping = TRUE, !.jumpVelocity = 0 - 100]
             ELSE t
    ELSE t

\* mutant of restartGame: the old track list is not emptied before the rebuild
P0_restartGame_keepTrack(t) ==
    LET c == [t EXCEPT !.gameOver = FALSE,
                       !.shipRotation = 0,
                       !.shipVelocity = Vector3(0, 0, 0),
                       !.isJumping = FALSE,
                       !.jumpVelocity = 0,
                       !.scene = @ \ {t.trackIds[i] : i \in 1..Len(t.trackIds)}]
    IN  [P0_generate(c) EXCEPT !.shipPosition = Vector3(0, segmentHeight, 0)]

\* restartGame(): lines 1176-1206 (the text overlay and the debris are
\* presentation).  The entries of this.track are removed from the scene
\* (lines 1184-1187) before the track is generated again
P0_restartGame(t) ==
    LET c == [t EXCEPT !.gameOver = FALSE,
                       !.shipRotation = 0,
                       !.shipVelocity = Vector3(0, 0, 0),
                       !.isJumping = FALSE,
                       !.jumpVelocity = 0,
                       !.scene = @ \ {t.trackIds[i] : i \in 1..Len(t.trackIds)},
                       !.track = <<>>,
                       !.trackIds = <<>>]
    IN  [P0_generate(c) EXCEPT !.shipPosition = Vector3(0, segmentHeight, 0)]

\* mutant of the roof test: the band around the roof is 0.05 either way
P0_roofCrash_thin(t, s) ==
    LET tunnelTopY == SegmentTop(s) + 3500
    IN  /\ t.isJumping
        /\ t.jumpVelocity <= 0
        /\ t.shipPosition.y <= tunnelTopY + 50
        /\ t.shipPosition.y >= tunnelTopY - 50

\* updateShip, lines 756-759: the ship comes down on the roof of tunnel floor s
P0_roofCrash(t, s) ==
    LET tunnelTopY == SegmentTop(s) + 3500
    IN  /\ t.isJumping
        /\ t.jumpVelocity <= 0
        /\ t.shipPosition.y <= tunnelTopY + 500
        /\ t.shipPosition.y >= tunnelTopY - 500

\* updateShip, line 769: the ship is at floor level of tunnel floor s
P0_atTunnelFloor(t, s) == Abs(t.shipPosition.y - SegmentTop(s)) < 300

\* mutant of the edge test: the edge is 10% of the tunnel width
P0_edgeCrash_tenth(t, s, shipCenter) ==
    LET tunnelWidth == 3500
        tunnelEdgeSize == tunnelWidth \div 10
        safeWidth == (tunnelWidth \div 2) - tunnelEdgeSize
    IN  /\ ~t.isInTunnel
        /\ Abs(shipCenter.x - s.px) >= safeWidth

\* updateShip, lines 774-789: entering tunnel s too close to its side.
\* In doubles 3.5 * 0.2 is 0.7000000000000001, so safeWidth is
\* 1.0499999999999998, a sliver under 1.05: for a distance in whole
\* thousandths `distFromCenter > safeWidth' is `at least 1050'
P0_edgeCrash(t, s, shipCenter) ==
    LET tunnelWidth == 3500
        tunnelEdgeSize == (tunnelWidth * 2) \div 10
        safeWidth == (tunnelWidth \div 2) - tunnelEdgeSize
    IN  /\ ~t.isInTunnel
        /\ Abs(shipCenter.x - s.px) >= safeWidth

\* the tunnel floors under the ship centre, in track order
P0_floorsUnder(t, shipCenter) ==
    {i \in 1..Len(t.track) :
        UnderFoot(t.track[i], shipCenter) /\ t.track[i].isTunnelBlock}

\* updateShip, the first loop (lines 741-799): does it reach a `return'?
P0_tunnelCrash(t, shipCenter) ==
    \E i \in P0_floorsUnder(t, shipCenter) :
        \/ P0_roofCrash(t, t.track[i])
        \/ P0_atTunnelFloor(t, t.track[i]) /\ P0_edgeCrash(t, t.track[i], shipCenter)

\* mutant of the move: in a tunnel the ship is centred but not advanced
P0_move_tunnelStops(t, onTunnelBlock, tunnelCenterX) ==
    LET u == [t EXCEPT !.isInTunnel = onTunnelBlock]
        vx == (u.shipRotation * u.gameSpeed) \div 1000
    IN  IF ~u.isInTunnel
        THEN [u EXCEPT !.shipVelocity.x = vx, !.shipPosition.x = @ + vx,
                       !.shipPosition.z = @ - u.forwardSpeed]
        ELSE [u EXCEPT !.shipPosition.x = (@ * 9 + tunnelCenterX) \div 10,
                       !.shipPosition.y = 100 + 100,
                       !.shipRotation = 0]

\* updateShip, lines 804-824: steering or tunnel centring, then the forward move
P0_move(t, onTunnelBlock, tunnelCenterX) ==
    LET u == [t EXCEPT !.isInTunnel = onTunnelBlock]
        vx == (u.shipRotation * u.gameSpeed) \div 1000
        w == IF ~u.isInTunnel
             THEN [u EXCEPT !.shipVelocity.x = vx, !.shipPosition.x = @ + vx]
             ELSE [u EXCEPT !.shipPosition.x = (@ * 9 + tunnelCenterX) \div 10,
                            !.shipPosition.y = 100 + 100,
                            !.shipRotation = 0]
    IN  [w EXCEPT !.shipPosition.z = @ - w.forwardSpeed]

\* updateShip, lines 827-862
P0_jumpStep(t, shipCenter) ==
    IF ~t.isInTunnel
    THEN LET y1 == t.shipPosition.y + t.jumpVelocity
             v1 == t.jumpVelocity - 10
             hit == First({i \in 1..Len(t.track) :
                        /\ ~t.track[i].isTunnelTop
                        /\ UnderFoot(t.track[i], shipCenter)
                        /\ y1 <= SegmentTop(t.track[i]) + 200
                        /\ y1 > SegmentTop(t.track[i]) - 500})
         IN  IF hit # 0
             THEN [t EXCEPT !.shipPosition.y = SegmentTop(t.track[hit]),
                            !.isJumping = FALSE,
                            !.jumpVelocity = 0]
             ELSE [t EXCEPT !.shipPosition.y = y1,
                            !.jumpVelocity = IF v1 < 0 THEN v1 - 10 ELSE v1]
    ELSE [t EXCEPT !.isJumping = FALSE, !.jumpVelocity = 0]

\* updateShip, lines 863-893
P0_groundStep(t, shipCenter) ==
    IF ~t.isInTunnel
    THEN LET on == First({i \in 1..Len(t.track) :
                       /\ ~t.track[i].isTunnelTop
                       /\ UnderFoot(t.track[i], shipCenter)
                       /\ Abs(t.shipPosition.y - SegmentTop(t.track[i])) < 300})
         IN  IF on = 0
             THEN [t EXCEPT !.isJumping = TRUE, !.jumpVelocity = 0 - 100]
             ELSE [t EXCEPT !.shipPosition.y = SegmentTop(t.track[on])]
    ELSE t

\* updateShip(): the ship centre is taken before the move
P0_updateShip(t) ==
    IF t.gameOver THEN t
    ELSE LET shipCenter == [t.shipPosition EXCEPT !.z = @ + 1000]
             inTunnel == {i \in P0_floorsUnder(t, shipCenter) :
                             P0_atTunnelFloor(t, t.track[i])}
             onTunnelBlock == inTunnel # {}
             \* the last assignment of the loop stands
             tunnelCenterX ==
                 IF inTunnel = {} THEN 0
                 ELSE t.track[CHOOSE i \in inTunnel : \A j \in inTunnel : j <= i].px
         IN  IF P0_tunnelCrash(t, shipCenter)
             THEN [t EXCEPT !.gameOver = TRUE]
             ELSE LET m == P0_move(t, onTunnelBlock, tunnelCenterX)
                      n == IF m.isJumping THEN P0_jumpStep(m, shipCenter)
                           ELSE P0_groundStep(m, shipCenter)
                  IN  P0_checkCollisions(n, shipCenter)

\* fixedUpdate(deltaTime), lines 1055-1071, before it calls updateShip
P0_applySpeeds(t) ==
    LET a == [t EXCEPT !.forwardSpeed = baseSpeed.forward]
        b == IF ~a.isInTunnel
             THEN [a EXCEPT !.shipRotation =
                       IF a.leftKeyPressed THEN 0 - baseSpeed.rotation
                       ELSE IF a.rightKeyPressed THEN baseSpeed.rotation
                       ELSE 0]
             ELSE a
    IN  IF b.isJumping /\ ~b.isInTunnel
        THEN [b EXCEPT !.jumpVelocity = @ - baseSpeed.gravity]
        ELSE b

\* fixedUpdate(deltaTime), which is all of animate() that touches the ship
P0_fixedUpdate(t) == P0_updateShip(P0_applySpeeds(t))

\* mutant of the keydown listener: the controls work in a tunnel too
P0_keydown_inTunnel(t, key) ==
    IF t.gameOver
    THEN IF key = " " THEN P0_restartGame(t) ELSE t
    ELSE CASE key = "ArrowLeft" ->
                [t EXCEPT !.leftKeyPressed = TRUE, !.shipRotation = 0 - 250]
           [] key = "ArrowRight" ->
                [t EXCEPT !.rightKeyPressed = TRUE, !.shipRotation = 250]
           [] key = " " ->
                IF ~t.isJumping
                THEN [t EXCEPT !.isJumping = TRUE, !.jumpVelocity = baseSpeed.jump]
                ELSE t
           [] OTHER -> t

\* mutant of the keydown listener: Space starts a jump in the air as well
P0_keydown_doubleJump(t, key) ==
    IF t.gameOver
    THEN IF key = " " THEN P0_restartGame(t) ELSE t
    ELSE IF t.isInTunnel THEN t
    ELSE CASE key = "ArrowLeft" ->
                [t EXCEPT !.leftKeyPressed = TRUE, !.shipRotation = 0 - 250]
           [] key = "ArrowRight" ->
                [t EXCEPT !.rightKeyPressed = TRUE, !.shipRotation = 250]
           [] key = " " ->
                [t EXCEPT !.isJumping = TRUE, !.jumpVelocity = baseSpeed.jump]
           [] OTHER -> t

\* the keydown listener
P0_keydown(t, key) ==
    IF t.gameOver
    THEN IF key = " " THEN P0_restartGame(t) ELSE t
    ELSE IF t.isInTunnel THEN t
    ELSE CASE key = "ArrowLeft" ->
                [t EXCEPT !.leftKeyPressed = TRUE, !.shipRotation = 0 - 250]
           [] key = "ArrowRight" ->
                [t EXCEPT !.rightKeyPressed = TRUE, !.shipRotation = 250]
           [] key = " " ->
                IF ~t.isJumping
                THEN [t EXCEPT !.isJumping = TRUE, !.jumpVelocity = baseSpeed.jump]
                ELSE t
           [] OTHER -> t

\* the keyup listener
P0_keyup(t, key) ==
    CASE key = "ArrowLeft" ->
            [t EXCEPT !.leftKeyPressed = FALSE,
                      !.shipRotation =
                          IF ~t.rightKeyPressed /\ ~t.isInTunnel THEN 0
                          ELSE IF ~t.isInTunnel THEN 250
                          ELSE @]
      [] key = "ArrowRight" ->
            [t EXCEPT !.rightKeyPressed = FALSE,
                      !.shipRotation =
                          IF ~t.leftKeyPressed /\ ~t.isInTunnel THEN 0
                          ELSE IF ~t.isInTunnel THEN 0 - 250
                          ELSE @]
      [] OTHER -> t

\* mutant of loadLevel: the load also puts the game back in play
P0_loadLevel_resume(t, text) ==
    LET d == [t EXCEPT !.levelData = text, !.gameOver = FALSE]
    IN  [P0_generate(d) EXCEPT !.shipPosition = Vector3(0, segmentHeight, 0)]

\* loadLevel() after `await response.text()': lines 89-95
P0_loadLevel(t, text) ==
    LET d == [t EXCEPT !.levelData = text]
    IN  [P0_generate(d) EXCEPT !.shipPosition = Vector3(0, segmentHeight, 0)]

----------------------------------------------------------------------------
(* Level texts the fetch may deliver *)

\* rows joined by line breaks, as in the level file
RECURSIVE Lines(_)
Lines(rows) ==
    IF rows = <<>> THEN <<>>
    ELSE IF Len(rows) = 1 THEN Head(rows)
    ELSE Head(rows) \o <<NL>> \o Lines(Tail(rows))

StartMarker == <<"<", "s", "t", "a", "r", "t", ">">>
EndMarker == <<"<", "e", "n", "d", ">">>
RowCentre == <<".", ".", ".", "1", ".", ".", ".">>
RowGap == <<" ", " ", " ", " ", " ", " ", " ">>
RowRight == <<".", ".", ".", "1", "2", "3", "4">>
RowRightTunnel == <<".", ".", ".", "1", "2", "1", "5">>
RowMixed == <<".", ".", "7", "5", "8", ".", ".">>
RowSides == <<".", ".", "1", "7", "1", ".", ".">>

\* centre lane, one gap row, centre lane again (the file lists the far end first)
LevelGap == Lines(<<EndMarker, RowCentre, RowGap, RowCentre, StartMarker>>)

\* plain track, a tunnel between raised blocks, a raised block between plain
\* lanes
LevelMixed == Lines(<<EndMarker, RowSides, RowMixed, RowCentre, StartMarker>>)

\* the right half of the road, long enough to steer off its edge, with a
\* tunnel in the outermost lane
LevelRight ==
    Lines(<<RowRightTunnel, RowRight, RowRight, RowRight, RowRight, RowRight>>)

\* the two `special path' cells of the legend, in the centre lane
RowFast == <<".", ".", ".", "9", ".", ".", ".">>
RowSlow == <<".", ".", ".", "0", ".", ".", ".">>
LevelSpeed == Lines(<<EndMarker, RowCentre, RowSlow, RowFast, StartMarker>>)

\* an excerpt of levels[0].data of levels.js: its rows at lines 19-21,
\* between the markers
Level1 ==
    Trim(Lines(<<EndMarker,
            <<".", ".", "1", ".", "1", ".", ".">>,
            <<".", ".", "1", " ", "1", ".", ".">>,
            <<".", ".", "1", "1", "1", ".", ".">>,
            StartMarker>>))

\* the right half of the road with a raised block at the end of the
\* outermost lane
RowRightRaised == <<".", ".", ".", "1", "2", "3", "7">>
LevelEdge ==
    Lines(<<RowRightRaised, RowRight, RowRight, RowRight, RowRight, RowRight>>)

\* a straight centre lane of four rows
LevelLane ==
    Lines(<<EndMarker, RowCentre, RowCentre, RowCentre, RowCentre, StartMarker>>)

\* a centre lane that climbs over a raised block and a tunnel and runs on
RowRaised == <<".", ".", ".", "7", ".", ".", ".">>
RowTunnel == <<".", ".", ".", "5", ".", ".", ".">>
LevelHigh ==
    Lines(<<EndMarker, RowCentre, RowCentre, RowCentre, RowTunnel, RowRaised,
            RowCentre, StartMarker>>)

\* a centre lane with a raised block and, a jump away from the start, a
\* tunnel behind it
LevelDrop ==
    Lines(<<EndMarker, RowCentre, RowCentre, RowTunnel, RowRaised, RowCentre,
            StartMarker>>)

Levels == {LevelGap, LevelMixed}
WideLevels == {LevelRight}

\* rows of a level of levels.js
MaxLevelRows == 2

\* rows for the second class: digits, dots, a blank between cells, blanks
\* around the row
LevelsRows ==
    { <<".", ".", "1", " ", "1", ".", ".">>,
      <<".", ".", "1", "1", "1", ".", ".">>,
      <<" ", ".", "7", "5", ".", " ">>,
      <<".", ".", ".", ".", ".", ".", ".">>,
      <<"2">>,
      <<".", "9", " ", " ", "0", ".">>,
      <<>> }

\* the level data: the rows between the markers, trimmed as in levels.js
LevelsTexts ==
    {Level1} \cup
    {Trim(Lines(<<EndMarker>> \o rows \o <<StartMarker>>)) :
        rows \in UNION {[1..n -> LevelsRows] : n \in 0..MaxLevelRows}}

\* rows for the track builder: every cell class, a character outside the
\* legend, rows shorter and longer than 7, leading blanks, '<' among digits
ParseRows ==
    { <<"1", "5", "7", ".", " ", "x", "9">>,
      <<" ", "1", "2", "3", "4", "5", "6", "7">>,
      <<".", ".", ".", "0", ".", ".", ".", "8", "8">>,
      <<"6">>,
      <<" ", " ", "3">>,
      <<"1", "<", "2">>,
      <<>>,
      StartMarker }

\* the texts of 1..MaxParseRows such rows
ParseTexts ==
    {Lines(rows) : rows \in UNION {[1..n -> ParseRows] : n \in 1..MaxParseRows}}

Keys == {"ArrowLeft", "ArrowRight", " "}

----------------------------------------------------------------------------
(* game.js, second class: the track is built from levels.js *)

\* the fields the constructor sets (lines 717-731); the second class has no
\* key flags, tunnel flag or level text: they are carried at their defaults
G2_fields ==
    [shipPosition |-> Vector3(0, 200, 0), shipRotation |-> 0,
     shipVelocity |-> Vector3(0, 0, 0), isJumping |-> FALSE, jumpVelocity |-> 0,
     gameSpeed |-> 400, forwardSpeed |-> 200, gameOver |-> FALSE,
     leftKeyPressed |-> FALSE, rightKeyPressed |-> FALSE, isInTunnel |-> FALSE,
     levelData |-> <<>>, track |-> <<>>]

\* lines 788-794: the height of the cell written as char
G2_height(char) ==
    IF char \in {"7", "8"} THEN 1000
    ELSE IF char \in {"5", "6"} THEN 100
    ELSE 200

\* lines 784-817: the entries of one trimmed line, from column x on (x from 1)
G2_lineEntries(line, x, currentZ) ==
    LET Entry(i) == [type |-> line[i],
                     px |-> (2 * (i - 1) - Len(line)) * 1500,
                     py |-> G2_height(line[i]) \div 2,
                     pz |-> 0 - currentZ]
        F[i \in x..(Len(line) + 1)] ==
            IF i > Len(line) THEN <<>>
            ELSE IF line[i] = "." THEN F[i + 1]
            ELSE <<Entry(i)>> \o F[i + 1]
    IN  F[x]

\* lines 777-778: findIndex of the first line with <start>, else the last line
G2_startLine(lines) ==
    LET hits == {i \in 1..Len(lines) :
                    \E k \in 0..(Len(lines[i]) - Len(StartMarker)) :
                        SubSeq(lines[i], k + 1, k + Len(StartMarker)) = StartMarker}
    IN  IF hits = {} THEN Len(lines) ELSE First(hits)

\* lines 781-819: the lines above the start line, from the bottom up
RECURSIVE G2_linesEntries(_, _, _)
G2_linesEntries(lines, y, currentZ) ==
    IF y < 1 THEN <<>>
    ELSE LET line == Trim(lines[y])
         IN  IF line = EndMarker \/ line = StartMarker
             THEN G2_linesEntries(lines, y - 1, currentZ)
             ELSE G2_lineEntries(line, 1, currentZ)
                  \o G2_linesEntries(lines, y - 1, currentZ + 3000)

\* generateTrackFromLevel() of the second class (lines 770-822)
G2_generateTrackFromLevel(track, data) ==
    LET lines == SplitLines(data, <<>>)
    IN  track \o G2_linesEntries(lines, G2_startLine(lines) - 1, 0)

\* lines 727 and 730 of the constructor
G2_trackWidth == 3
G2_segmentHeight == 200

\* the keydown listener of the second class (lines 825-842)
G2_keydown(t, key) ==
    IF t.gameOver THEN t
    ELSE CASE key = "ArrowLeft" ->
                [t EXCEPT !.shipRotation = Max(t.shipRotation - 100, 0 - 500)]
           [] key = "ArrowRight" ->
                [t EXCEPT !.shipRotation = Min(t.shipRotation + 100, 500)]
           [] key = " " ->
                IF ~t.isJumping
                THEN [t EXCEPT !.isJumping = TRUE, !.jumpVelocity = 300]
                ELSE t
           [] OTHER -> t

\* the keyup listener of the second class (lines 844-848)
G2_keyup(t, key) ==
    IF key \in {"ArrowLeft", "ArrowRight"}
    THEN [t EXCEPT !.shipRotation = 0]
    ELSE t

\* mutant of checkCollisions: a ship at the ground height is too low
G2_checkCollisions_atGround(t) ==
    IF Abs(t.shipPosition.x) * 10 > G2_trackWidth * 1000 * 15
    THEN [t EXCEPT !.gameOver = TRUE]
    ELSE IF t.shipPosition.y <= G2_segmentHeight
    THEN [t EXCEPT !.gameOver = TRUE]
    ELSE t

\* checkCollisions() of the second class (lines 851-863)
G2_checkCollisions(t) ==
    IF Abs(t.shipPosition.x) * 10 > G2_trackWidth * 1000 * 15
    THEN [t EXCEPT !.gameOver = TRUE]
    ELSE IF t.shipPosition.y < G2_segmentHeight
    THEN [t EXCEPT !.gameOver = TRUE]
    ELSE t

\* lines 884-888: lateral velocity, lateral and forward move
G2_move(t) ==
    LET vx == (t.shipRotation * t.gameSpeed) \div 1000
    IN  [t EXCEPT !.shipVelocity.x = vx,
                  !.shipPosition.x = @ + vx,
                  !.shipPosition.z = @ - t.forwardSpeed]

\* lines 890-904: the jump physics
G2_jumpStep(t) ==
    IF t.isJumping
    THEN LET y1 == t.shipPosition.y + t.jumpVelocity
             v1 == t.jumpVelocity - 10
         IN  IF y1 <= G2_segmentHeight
             THEN [t EXCEPT !.shipPosition.y = G2_segmentHeight,
                            !.isJumping = FALSE,
                            !.jumpVelocity = 0]
             ELSE [t EXCEPT !.shipPosition.y = y1, !.jumpVelocity = v1]
    ELSE [t EXCEPT !.shipPosition.y = G2_segmentHeight]

\* updateShip() of the second class (lines 877-913); the alert of a game over
\* changes nothing
G2_updateShip(t) ==
    IF t.gameOver THEN t
    ELSE G2_checkCollisions(G2_jumpStep(G2_move(t)))

----------------------------------------------------------------------------
(* part_001: the track is random *)

\* the fields the constructor sets (lines 11-22); key flags, tunnel flag and
\* level text do not exist in this revision and are carried at their defaults
P1_fields ==
    [shipPosition |-> Vector3(0, 0, 0), shipRotation |-> 0,
     shipVelocity |-> Vector3(0, 0, 0), isJumping |-> FALSE, jumpVelocity |-> 0,
     gameSpeed |-> 100, forwardSpeed |-> 200, gameOver |-> FALSE,
     leftKeyPressed |-> FALSE, rightKeyPressed |-> FALSE, isInTunnel |-> FALSE,
     levelData |-> <<>>, track |-> <<>>]

\* lines 20-21 of the constructor
P1_trackWidth == 2
P1_trackLength == 100

\* generateTrack() (lines 60-79): gaps is the set of the iterations i whose
\* Math.random() came out below gapProbability
P1_generateTrack(track, gaps) ==
    LET made == (0..(P1_trackLength - 1)) \ gaps
        \* the iteration that pushes the k-th segment
        Nth(k) == CHOOSE i \in made : Cardinality({j \in made : j <= i}) = k
    IN  track \o [k \in 1..Cardinality(made) |-> [pz |-> 0 - Nth(k) * 1000]]

\* the keydown listener (lines 82-100)
P1_keydown(t, key) ==
    IF t.gameOver THEN t
    ELSE CASE key = "ArrowLeft" ->
                [t EXCEPT !.shipRotation = Max(t.shipRotation - 100, 0 - 500)]
           [] key = "ArrowRight" ->
                [t EXCEPT !.shipRotation = Min(t.shipRotation + 100, 500)]
           [] key = " " ->
                IF ~t.isJumping
                THEN [t EXCEPT !.isJumping = TRUE, !.jumpVelocity = 300]
                ELSE t
           [] OTHER -> t

\* the keyup listener (lines 102-106)
P1_keyup(t, key) ==
    IF key \in {"ArrowLeft", "ArrowRight"}
    THEN [t EXCEPT !.shipRotation = 0]
    ELSE t

\* checkCollisions() (lines 110-122)
P1_checkCollisions(t) ==
    IF Abs(t.shipPosition.x) * 2 > P1_trackWidth * 1000
    THEN [t EXCEPT !.gameOver = TRUE]
    ELSE IF t.shipPosition.y < 0
    THEN [t EXCEPT !.gameOver = TRUE]
    ELSE t

\* lines 143-147: lateral velocity, lateral and forward move
P1_move(t) ==
    LET vx == (t.shipRotation * t.gameSpeed) \div 1000
    IN  [t EXCEPT !.shipVelocity.x = vx,
                  !.shipPosition.x = @ + vx,
                  !.shipPosition.z = @ - t.forwardSpeed]

\* lines 149-160: the jump physics; there is no else branch
P1_jumpStep(t) ==
    IF t.isJumping
    THEN LET y1 == t.shipPosition.y + t.jumpVelocity
             v1 == t.jumpVelocity - 10
         IN  IF y1 <= 0
             THEN [t EXCEPT !.shipPosition.y = 0,
                            !.isJumping = FALSE,
                            !.jumpVelocity = 0]
             ELSE [t EXCEPT !.shipPosition.y = y1, !.jumpVelocity = v1]
    ELSE t

\* updateShip() (lines 136-169); the alert of a game over changes nothing
P1_updateShip(t) ==
    IF t.gameOver THEN t
    ELSE P1_checkCollisions(P1_jumpStep(P1_move(t)))

----------------------------------------------------------------------------
(* The state machine *)

\* the ship fields of `this' (everything but the level and the track)
Ship(t) ==
    [shipPosition |-> t.shipPosition, shipRotation |-> t.shipRotation,
     shipVelocity |-> t.shipVelocity, isJumping |-> t.isJumping,
     jumpVelocity |-> t.jumpVelocity, gameOver |-> t.gameOver,
     leftKeyPressed |-> t.leftKeyPressed, rightKeyPressed |-> t.rightKeyPressed,
     isInTunnel |-> t.isInTunnel]

Op(name, key) == [op |-> name, key |-> key]

\* the state when `new Game()' returns, for the revision r, the level texts
\* the server may hold and a number of key events.
\* game.js: the constructor ends with animate(), so the first updateShip has
\* run when construction is over.  part_000: init() only requests the first
\* animation frame.  In both the fetch of loadLevel() is still pending.
Constructed(r, texts, keys) ==
    /\ rev = r
    /\ game = IF r = "G1" THEN G1_updateShip(G1_fields, FALSE) ELSE P0_fields
    /\ fetchState = "pending"
    /\ response \in texts
    /\ keysLeft = keys
    /\ lastOp = IF r = "G1" THEN Op("frame", "") ELSE Op("init", "")
    /\ pre = IF r = "G1" THEN Ship(G1_fields) ELSE Ship(P0_fields)
    /\ loadTrack = <<>>
    /\ overFrames = 0

InitG1 == Constructed("G1", Levels, MaxKeyEvents)
InitP0 == Constructed("P0", Levels, MaxKeyEvents)

\* the long level, with one key event less
InitWide ==
    \/ Constructed("G1", WideLevels, MaxKeyEvents - 1)
    \/ Constructed("P0", WideLevels, MaxKeyEvents - 1)

\* animate(): one display frame
G1_Frame ==
    /\ rev = "G1"
    /\ game.gameOver => overFrames < MaxOverFrames
    /\ \E confirmOk \in BOOLEAN : game' = G1_updateShip(game, confirmOk)
    /\ overFrames' = IF game'.gameOver /\ game.gameOver THEN overFrames + 1 ELSE 0
    /\ lastOp' = Op("frame", "")
    /\ pre' = Ship(game)
    /\ UNCHANGED <<rev, response, fetchState, keysLeft, loadTrack>>

G1_KeyDown ==
    /\ rev = "G1"
    /\ keysLeft > 0
    /\ \E key \in Keys :
          /\ game' = G1_keydown(game, key)
          /\ lastOp' = Op("keydown", key)
    /\ keysLeft' = keysLeft - 1
    /\ pre' = Ship(game)
    /\ overFrames' = IF game'.gameOver THEN overFrames ELSE 0
    /\ UNCHANGED <<rev, response, fetchState, loadTrack>>

G1_KeyUp ==
    /\ rev = "G1"
    /\ keysLeft > 0
    /\ \E key \in Keys :
          /\ game' = G1_keyup(game, key)
          /\ lastOp' = Op("keyup", key)
    /\ keysLeft' = keysLeft - 1
    /\ pre' = Ship(game)
    /\ overFrames' = IF game'.gameOver THEN overFrames ELSE 0
    /\ UNCHANGED <<rev, response, fetchState, loadTrack>>

\* the fetch resolves: loadLevel() continues after its awaits
G1_LoadResolved ==
    /\ rev = "G1"
    /\ fetchState = "pending"
    /\ game' = G1_loadLevel(game, response)
    /\ fetchState' = "resolved"
    /\ loadTrack' = game'.track
    /\ lastOp' = Op("load", "")
    /\ pre' = Ship(game)
    /\ UNCHANGED <<rev, response, keysLeft, overFrames>>

\* the fetch rejects: the catch block logs the error
G1_LoadRejected ==
    /\ rev = "G1"
    /\ fetchState = "pending"
    /\ fetchState' = "rejected"
    /\ lastOp' = Op("loadError", "")
    /\ pre' = Ship(game)
    /\ UNCHANGED <<rev, response, game, keysLeft, loadTrack, overFrames>>

P0_Frame ==
    /\ rev = "P0"
    /\ game.gameOver => overFrames < MaxOverFrames
    /\ game' = P0_fixedUpdate(game)
    /\ overFrames' = IF game'.gameOver /\ game.gameOver THEN overFrames + 1 ELSE 0
    /\ lastOp' = Op("frame", "")
    /\ pre' = Ship(game)
    /\ UNCHANGED <<rev, response, fetchState, keysLeft, loadTrack>>

P0_KeyDown ==
    /\ rev = "P0"
    /\ keysLeft > 0
    /\ \E key \in Keys :
          /\ game' = P0_keydown(game, key)
          /\ lastOp' = Op("keydown", key)
    /\ keysLeft' = keysLeft - 1
    /\ pre' = Ship(game)
    /\ overFrames' = IF game'.gameOver THEN overFrames ELSE 0
    /\ UNCHANGED <<rev, response, fetchState, loadTrack>>

P0_KeyUp ==
    /\ rev = "P0"
    /\ keysLeft > 0
    /\ \E key \in Keys :
          /\ game' = P0_keyup(game, key)
          /\ lastOp' = Op("keyup", key)
    /\ keysLeft' = keysLeft - 1
    /\ pre' = Ship(game)
    /\ overFrames' = IF game'.gameOver THEN overFrames ELSE 0
    /\ UNCHANGED <<rev, response, fetchState, loadTrack>>

P0_LoadResolved ==
    /\ rev = "P0"
    /\ fetchState = "pending"
    /\ game' = P0_loadLevel(game, response)
    /\ fetchState' = "resolved"
    /\ loadTrack' = game'.track
    /\ lastOp' = Op("load", "")
    /\ pre' = Ship(game)
    /\ UNCHANGED <<rev, response, keysLeft, overFrames>>

P0_LoadRejected ==
    /\ rev = "P0"
    /\ fetchState = "pending"
    /\ fetchState' = "rejected"
    /\ lastOp' = Op("loadError", "")
    /\ pre' = Ship(game)
    /\ UNCHANGED <<rev, response, game, keysLeft, loadTrack, overFrames>>

\* a timer callback runs: the camera refit of init() (lines 223-245), the
\* flash of the explosion (1006-1015) or the fade-in of the game-over text
\* (1031-1044).  They write the camera, the flash mesh, the text opacity and
\* gameOverFadeInterval; no field of the ship or of the track
P0_Timer ==
    /\ rev = "P0"
    /\ lastOp.op # "timer"
    /\ lastOp' = Op("timer", "")
    /\ pre' = Ship(game)
    /\ UNCHANGED <<rev, game, response, fetchState, keysLeft, loadTrack, overFrames>>

NextG1 ==
    \/ G1_Frame
    \/ G1_KeyDown
    \/ G1_KeyUp
    \/ G1_LoadResolved
    \/ G1_LoadRejected

NextP0 ==
    \/ P0_Frame
    \/ P0_KeyDown
    \/ P0_KeyUp
    \/ P0_LoadResolved
    \/ P0_LoadRejected
    \/ P0_Timer

\* game.js, first class
SpecG1 == InitG1 /\ [][NextG1]_vars

\* part_000
SpecP0 == InitP0 /\ [][NextP0]_vars

\* both revisions on the long level
NextWide == NextG1 \/ NextP0
SpecWide == InitWide /\ [][NextWide]_vars

\* both revisions on the level with the cells '9' and '0'
InitSpeed ==
    \/ Constructed("G1", {LevelSpeed}, MaxKeyEvents - 1)
    \/ Constructed("P0", {LevelSpeed}, MaxKeyEvents - 1)
SpecSpeed == InitSpeed /\ [][NextWide]_vars

\* game.js, first class, on the level with the raised block in lane 6
InitEdge == Constructed("G1", {LevelEdge}, MaxKeyEvents - 1)
SpecEdge == InitEdge /\ [][NextG1]_vars

\* part_000 on the straight lane, with no key pressed at all
InitLane == Constructed("P0", {LevelLane}, 0)
NextLane ==
    \/ P0_Frame
    \/ P0_LoadResolved
    \/ P0_LoadRejected
    \/ P0_Timer
SpecLane == InitLane /\ [][NextLane]_vars

\* the keydown listener receives Space
G1_SpaceDown ==
    /\ rev = "G1"
    /\ keysLeft > 0
    /\ game' = G1_keydown(game, " ")
    /\ lastOp' = Op("keydown", " ")
    /\ keysLeft' = keysLeft - 1
    /\ pre' = Ship(game)
    /\ overFrames' = IF game'.gameOver THEN overFrames ELSE 0
    /\ UNCHANGED <<rev, response, fetchState, loadTrack>>

\* game.js, first class, with Space the only key: jumps without steering, on
\* the straight lane and on the lane with a raised block and a tunnel.  requestAnimationFrame keeps delivering frames (line 682)
InitJump == Constructed("G1", {LevelLane, LevelHigh}, MaxKeyEvents)
NextJump ==
    \/ G1_Frame
    \/ G1_SpaceDown
    \/ G1_LoadResolved
    \/ G1_LoadRejected
SpecJump == InitJump /\ [][NextJump]_vars /\ WF_vars(G1_Frame)

----------------------------------------------------------------------------
(* part_000: the timers of the game-over text.  SpecP0 leaves them out (they
   write presentation objects only); here the pending timeouts, the running
   intervals and gameOverFadeInterval are state, kept in three more fields of
   `game'.  An interval is its handle and the `step' of its closure; the
   handle 0 is null *)

fadeInSteps == 20

FadeFields == [gameOverFadeInterval |-> 0, timeouts |-> 0, intervals |-> {}, handles |-> 0]

\* clearInterval(handle)
clearInterval(intervals, handle) == {i \in intervals : i.id # handle}

\* createExplosionEffect(), lines 1017-1046: the text part
P0_createExplosionEffect(t) ==
    [t EXCEPT !.intervals = clearInterval(@, t.gameOverFadeInterval),
              !.gameOverFadeInterval = 0,
              !.timeouts = @ + 1]

\* restartGame(), lines 1164-1168, before the reset of the game
P0_clearFade(t) ==
    [t EXCEPT !.intervals = clearInterval(@, t.gameOverFadeInterval),
              !.gameOverFadeInterval = 0]

\* the callback of the 1.5 s setTimeout, lines 1031-1045
P0_fadeTimeout(t) ==
    LET handle == t.handles + 1
    IN  [t EXCEPT !.timeouts = @ - 1,
                  !.handles = handle,
                  !.intervals = @ \cup {[id |-> handle, step |-> 0]},
                  !.gameOverFadeInterval = handle]

\* the callback of the 50 ms setInterval i, lines 1036-1044; `step' only
\* matters up to fadeInSteps, where the count stops
P0_fadeTick(t, i) ==
    LET step == Min(i.step + 1, fadeInSteps)
        stepped == (t.intervals \ {i}) \cup {[i EXCEPT !.step = step]}
    IN  IF step >= fadeInSteps
        THEN [t EXCEPT !.intervals = clearInterval(stepped, t.gameOverFadeInterval),
                       !.gameOverFadeInterval = 0]
        ELSE [t EXCEPT !.intervals = stepped]

\* animate(): one frame; the frame that ends the game has called
\* createExplosionEffect (lines 614, 621, 763, 786)
Fade_Frame ==
    /\ rev = "P0"
    /\ game.gameOver => overFrames < MaxOverFrames
    /\ LET u == P0_fixedUpdate(game)
       IN  game' = IF u.gameOver /\ ~game.gameOver
                   THEN P0_createExplosionEffect(u) ELSE u
    /\ overFrames' = IF game'.gameOver /\ game.gameOver THEN overFrames + 1 ELSE 0
    /\ lastOp' = Op("frame", "")
    /\ pre' = Ship(game)
    /\ UNCHANGED <<rev, response, fetchState, keysLeft, loadTrack>>

\* the keydown listener receives Space: at game over it calls restartGame
Fade_SpaceDown ==
    /\ rev = "P0"
    /\ keysLeft > 0
    /\ game' = IF game.gameOver THEN P0_restartGame(P0_clearFade(game))
               ELSE P0_keydown(game, " ")
    /\ lastOp' = Op("keydown", " ")
    /\ keysLeft' = keysLeft - 1
    /\ pre' = Ship(game)
    /\ overFrames' = IF game'.gameOver THEN overFrames ELSE 0
    /\ UNCHANGED <<rev, response, fetchState, loadTrack>>

\* a pending 1.5 s timeout fires
Fade_Timeout ==
    /\ rev = "P0"
    /\ game.timeouts > 0
    /\ game' = P0_fadeTimeout(game)
    /\ lastOp' = Op("timeout", "")
    /\ pre' = Ship(game)
    /\ UNCHANGED <<rev, response, fetchState, keysLeft, loadTrack, overFrames>>

\* a running 50 ms interval fires
Fade_Tick ==
    /\ rev = "P0"
    /\ \E i \in game.intervals : game' = P0_fadeTick(game, i)
    /\ lastOp' = Op("tick", "")
    /\ pre' = Ship(game)
    /\ UNCHANGED <<rev, response, fetchState, keysLeft, loadTrack, overFrames>>

\* part_000 with its fade timers, on the level with the gap row
InitFade ==
    /\ rev = "P0"
    /\ game = P0_fields @@ FadeFields
    /\ fetchState = "pending"
    /\ response = LevelGap
    /\ keysLeft = MaxKeyEvents - 1
    /\ lastOp = Op("init", "")
    /\ pre = Ship(P0_fields)
    /\ loadTrack = <<>>
    /\ overFrames = 0

NextFade ==
    \/ Fade_Frame
    \/ Fade_SpaceDown
    \/ Fade_Timeout
    \/ Fade_Tick
    \/ P0_LoadResolved
    \/ P0_LoadRejected

SpecFade == InitFade /\ [][NextFade]_vars

\* part_000 on the lane with the tunnel a jump away
InitDrop == Constructed("P0", {LevelDrop}, MaxKeyEvents)
SpecDrop == InitDrop /\ [][NextP0]_vars

\* game.js, first class, with frames that keep coming: animate() requests the
\* next frame before anything else (line 682)
InitSession == Constructed("G1", Levels, MaxKeyEvents - 1)

SpecSession == InitSession /\ [][NextG1]_vars /\ WF_vars(G1_Frame)

\* the two earliest revisions: game.js, second class, on the first level of
\* levels.js, and part_001 on a random track.  Both constructors end with
\* animate(), so the first updateShip has run when construction is over
InitEarly ==
    /\ \/ /\ rev = "G2"
          /\ response = Level1
          /\ game = G2_updateShip(
                       [G2_fields EXCEPT
                           !.track = G2_generateTrackFromLevel(<<>>, response)])
          /\ pre = Ship(G2_fields)
       \/ /\ rev = "P1"
          /\ response = <<>>
          /\ \E gaps \in SUBSET (0..(MaxGapCells - 1)) :
                game = P1_updateShip(
                          [P1_fields EXCEPT !.track = P1_generateTrack(<<>>, gaps)])
          /\ pre = Ship(P1_fields)
    /\ fetchState = "none"
    /\ keysLeft = MaxKeyEvents
    /\ lastOp = Op("frame", "")
    /\ loadTrack = game.track
    /\ overFrames = 0

\* a running game is followed for MaxEarlyFrames frames
EarlyFrameAllowed ==
    IF game.gameOver THEN overFrames < MaxOverFrames
    ELSE 0 - game.shipPosition.z < MaxEarlyFrames * game.forwardSpeed

\* animate() of the second class: one display frame
G2_Frame ==
    /\ rev = "G2"
    /\ EarlyFrameAllowed
    /\ game' = G2_updateShip(game)
    /\ overFrames' = IF game'.gameOver /\ game.gameOver THEN overFrames + 1 ELSE 0
    /\ lastOp' = Op("frame", "")
    /\ pre' = Ship(game)
    /\ UNCHANGED <<rev, response, fetchState, keysLeft, loadTrack>>

G2_KeyDown ==
    /\ rev = "G2"
    /\ keysLeft > 0
    /\ \E key \in Keys :
          /\ game' = G2_keydown(game, key)
          /\ lastOp' = Op("keydown", key)
    /\ keysLeft' = keysLeft - 1
    /\ pre' = Ship(game)
    /\ UNCHANGED <<rev, response, fetchState, loadTrack, overFrames>>

G2_KeyUp ==
    /\ rev = "G2"
    /\ keysLeft > 0
    /\ \E key \in Keys :
          /\ game' = G2_keyup(game, key)
          /\ lastOp' = Op("keyup", key)
    /\ keysLeft' = keysLeft - 1
    /\ pre' = Ship(game)
    /\ UNCHANGED <<rev, response, fetchState, loadTrack, overFrames>>

\* animate() of part_001: one display frame
P1_Frame ==
    /\ rev = "P1"
    /\ EarlyFrameAllowed
    /\ game' = P1_updateShip(game)
    /\ overFrames' = IF game'.gameOver /\ game.gameOver THEN overFrames + 1 ELSE 0
    /\ lastOp' = Op("frame", "")
    /\ pre' = Ship(game)
    /\ UNCHANGED <<rev, response, fetchState, keysLeft, loadTrack>>

P1_KeyDown ==
    /\ rev = "P1"
    /\ keysLeft > 0
    /\ \E key \in Keys :
          /\ game' = P1_keydown(game, key)
          /\ lastOp' = Op("keydown", key)
    /\ keysLeft' = keysLeft - 1
    /\ pre' = Ship(game)
    /\ UNCHANGED <<rev, response, fetchState, loadTrack, overFrames>>

P1_KeyUp ==
    /\ rev = "P1"
    /\ keysLeft > 0
    /\ \E key \in Keys :
          /\ game' = P1_keyup(game, key)
          /\ lastOp' = Op("keyup", key)
    /\ keysLeft' = keysLeft - 1
    /\ pre' = Ship(game)
    /\ UNCHANGED <<rev, response, fetchState, loadTrack, overFrames>>

NextEarly ==
    \/ G2_Frame
    \/ G2_KeyDown
    \/ G2_KeyUp
    \/ P1_Frame
    \/ P1_KeyDown
    \/ P1_KeyUp

SpecEarly == InitEarly /\ [][NextEarly]_vars

\* game.js, first class, when the fetch does not deliver: it stays pending or
\* rejects.  requestAnimationFrame keeps delivering frames (line 682)
InitReject == Constructed("G1", {LevelGap}, MaxKeyEvents)
NextReject ==
    \/ G1_Frame
    \/ G1_KeyDown
    \/ G1_KeyUp
    \/ G1_LoadRejected
SpecReject == InitReject /\ [][NextReject]_vars /\ WF_vars(G1_Frame)

\* game.js, second class: init() builds the track of levels[currentLevel]
InitLevels ==
    /\ rev = "G2"
    /\ game = G2_fields
    /\ fetchState = "none"
    /\ response \in LevelsTexts
    /\ keysLeft = 0
    /\ lastOp = Op("new", "")
    /\ pre = Ship(G2_fields)
    /\ loadTrack = <<>>
    /\ overFrames = 0

G2_Init ==
    /\ rev = "G2"
    /\ lastOp = Op("new", "")
    /\ game' = [game EXCEPT !.track = G2_generateTrackFromLevel(game.track, response)]
    /\ lastOp' = Op("init", "")
    /\ pre' = Ship(game)
    /\ loadTrack' = game'.track
    /\ UNCHANGED <<rev, response, fetchState, keysLeft, overFrames>>

NextLevels == G2_Init
SpecLevels == InitLevels /\ [][NextLevels]_vars

\* part_000, the track builder alone: a text arrives and the track is built
InitParse == Constructed("P0", ParseTexts, 0)
NextParse == P0_LoadResolved
SpecParse == InitParse /\ [][NextParse]_vars

----------------------------------------------------------------------------
(* Vocabulary of the properties *)

StartPosition == Vector3(0, segmentHeight, 0)

\* the last step was an animation frame that found the game running
RunningFrame == lastOp.op = "frame" /\ ~pre.gameOver

\* the last step was a keydown of Space
SpaceDown == lastOp = Op("keydown", " ")

\* the ship centre the footprint tests are stated for: the position, 1 ahead in z
CentreOf(position) == [position EXCEPT !.z = @ + 1000]

\* no key event has been delivered in this run
NoKeyEvents == keysLeft = MaxKeyEvents

\* the ship fields a frame may change
Motion(t) ==
    <<t.shipPosition, t.shipVelocity, t.shipRotation, t.isJumping, t.jumpVelocity>>

----------------------------------------------------------------------------
(* C1: gameplay begins only after the level has loaded.  No frame changes the
   ship position, the jump state or the game-over flag while the fetch is
   pending, and when the load completes the ship is at the start position,
   grounded, with the game running. *)
C1_GameplayAwaitsLoad ==
    /\ (lastOp.op = "frame" /\ fetchState = "pending") =>
          /\ game.shipPosition = pre.shipPosition
          /\ game.isJumping = pre.isJumping
          /\ game.jumpVelocity = pre.jumpVelocity
          /\ game.gameOver = pre.gameOver
    /\ lastOp.op = "load" =>
          /\ game.shipPosition = StartPosition
          /\ ~game.isJumping
          /\ game.jumpVelocity = 0
          /\ ~game.gameOver

(* C2: restart idempotence (part_000).  restartGame, run from a game over,
   leaves the ship at the start position, unrotated, grounded, the game
   running, and the track list equal to the one the level load produced. *)
C2_RestartIdempotent ==
    (SpaceDown /\ pre.gameOver) =>
        /\ game.shipPosition = StartPosition
        /\ game.shipRotation = 0
        /\ ~game.isJumping
        /\ game.jumpVelocity = 0
        /\ ~game.gameOver
        /\ game.track = loadTrack

\* a restart of a loaded level, after the ship had travelled
C2_Witness ==
    /\ SpaceDown /\ pre.gameOver
    /\ fetchState = "resolved"
    /\ Len(game.track) > 0
    /\ pre.shipPosition.z < 0 - RowStep

(* C3: landing (game.js, first class).  In a frame that starts airborne, if
   after y has been integrated by jumpVelocity a segment under the moved
   ship's footprint has its top T with T-0.5 < y <= T+0.2, the frame ends
   grounded with jumpVelocity 0 and y = T. *)
C3_Landing ==
    (RunningFrame /\ pre.isJumping) =>
        \A i \in 1..Len(game.track) :
            LET T == SegmentTop(game.track[i])
                y == pre.shipPosition.y + pre.jumpVelocity
            IN  (/\ UnderFoot(game.track[i], CentreOf(game.shipPosition))
                 /\ T - 500 < y
                 /\ y <= T + 200)
                => (/\ ~game.isJumping
                    /\ game.jumpVelocity = 0
                    /\ game.shipPosition.y = T)

\* a descending ship has just landed on the top of a raised block
C3_Witness ==
    /\ rev = "G1"
    /\ RunningFrame /\ pre.isJumping /\ pre.jumpVelocity < 0
    /\ ~game.isJumping
    /\ game.shipPosition.y = 2000
    /\ pre.shipPosition.y # 2000

(* C4: falling edge (part_000).  In a frame that starts with the game running
   and the ship grounded and outside a tunnel, if no collidable segment lies
   under the footprint at the position the frame's movement leads to, the
   frame ends with isJumping true and a negative jumpVelocity. *)
C4_FallingEdge ==
    (/\ RunningFrame /\ ~pre.isJumping /\ ~pre.isInTunnel
     /\ \A i \in 1..Len(game.track) :
           game.track[i].isTunnelTop
           \/ ~UnderFoot(game.track[i], CentreOf(game.shipPosition)))
    => (game.isJumping /\ game.jumpVelocity < 0)

(* C5: lateral bound (both revisions).  A frame that starts with the game
   running and leaves |x| greater than 1.5 * trackWidth = 10.5 ends with
   gameOver true, whatever the jump state, the tunnel state and y. *)
C5_LateralBound ==
    (RunningFrame /\ Abs(game.shipPosition.x) > 10500) => game.gameOver

\* an airborne ship, well above the floor threshold, has crossed the bound
C5_Witness ==
    /\ RunningFrame
    /\ Abs(game.shipPosition.x) > 10500
    /\ Abs(pre.shipPosition.x) <= 10500
    /\ game.isJumping
    /\ game.shipPosition.y > 0
    /\ game.gameOver

\* digits, and tunnel digits, in columns 0..6 of a row, counted directly
C6_DigitsIn(row) ==
    Cardinality({c \in 1..Min(Len(row), trackWidth) : row[c] \in Digits})

C6_TunnelDigitsIn(row) ==
    Cardinality({c \in 1..Min(Len(row), trackWidth) : row[c] \in {"5", "6"}})

RECURSIVE C6_Sum(_, _)
C6_Sum(rows, i) ==
    IF i > Len(rows) THEN 0 ELSE C6_DigitsIn(rows[i]) + C6_Sum(rows, i + 1)

\* the track entries built for row k, counted from the start of the course
C6_EntriesOfRow(k) ==
    {i \in 1..Len(game.track) : game.track[i].pz = 0 - k * RowStep}

(* C6 as claimed: parsing (part_000) appends exactly one track entry per digit
   found in columns 0..6 of every row of the level text that is not a marker
   line, tunnel digits included; so the list holds as many entries as the
   rows hold such digits. *)
C6_OneEntryPerDigit ==
    lastOp.op = "load" =>
        Len(game.track) = C6_Sum(FilterMarkers(SplitLines(response, <<>>)), 1)

(* C6 as amended: for every row of the trimmed text that holds no '<', the
   entries built for the row are one per digit in its columns 0..6 plus one
   more (the invisible tunnel-top block) per tunnel digit; the entries that
   are not tunnel tops are exactly one per digit. *)
C6_EntriesPerRow ==
    lastOp.op = "load" =>
        LET rows == LevelRows(response)
        IN  /\ \A k \in 0..(Len(rows) - 1) :
                 /\ Cardinality(C6_EntriesOfRow(k))
                      = C6_DigitsIn(rows[k + 1]) + C6_TunnelDigitsIn(rows[k + 1])
                 /\ Cardinality({i \in C6_EntriesOfRow(k) : ~game.track[i].isTunnelTop})
                      = C6_DigitsIn(rows[k + 1])
            /\ \A i \in 1..Len(game.track) :
                 \E k \in 0..(Len(rows) - 1) : i \in C6_EntriesOfRow(k)

\* a two-row text with tunnel digits, a blank, a dot and a foreign character
C6_Witness ==
    /\ lastOp.op = "load"
    /\ Len(LevelRows(response)) = 2
    /\ \E i \in 1..Len(game.track) : game.track[i].isTunnelTop
    /\ \E i \in 1..Len(game.track) : game.track[i].block = "9"
    /\ \E i \in 1..Len(game.track) : game.track[i].pz = 0 - RowStep

\* LevelGap, stated directly: the centre cells of rows 0 and 2, row 1 empty
C7_OverCell(c) ==
    /\ Abs(c.x) < HalfWidth
    /\ \/ Abs(c.z) < HalfDepth
       \/ Abs(c.z + 2 * RowStep) < HalfDepth

(* C7: gap scenario (game.js, first class).  On the level with a centre cell
   in row 0 and an empty row 1, with no key events: a frame that starts
   grounded ends grounded if a segment is under the ship centre and airborne
   if none is; a running frame ends the game exactly when it leaves y < -5;
   and the ship is never grounded, and never lands, once its centre has
   passed the end of row 0. *)
C7_GapScenario ==
    (rev = "G1" /\ NoKeyEvents /\ game.levelData = LevelGap /\ RunningFrame) =>
        LET c == CentreOf(game.shipPosition)
        IN  /\ ~pre.isJumping => (game.isJumping <=> ~C7_OverCell(c))
            /\ game.gameOver <=> game.shipPosition.y < FloorLimit
            /\ c.z <= 0 - HalfDepth => game.isJumping

\* the ship ran off row 0 into the gap and has just fallen below the floor
C7_Witness ==
    /\ rev = "G1" /\ NoKeyEvents /\ game.levelData = LevelGap /\ RunningFrame
    /\ game.gameOver
    /\ game.shipPosition.y < FloorLimit
    /\ game.shipPosition.x = 0
    /\ CentreOf(game.shipPosition).z < 0 - HalfDepth
    /\ CentreOf(game.shipPosition).z > 0 - RowStep - HalfDepth

\* a tunnel floor cell of LevelMixed lies under the centre c
C8_OverTunnel(c) ==
    \E i \in 1..Len(game.track) :
        /\ game.track[i].block \in {"5", "6"}
        /\ Abs(c.x - game.track[i].px) < HalfWidth
        /\ Abs(c.z - game.track[i].pz) < HalfDepth

(* C8: game-over state machine (part_000).  gameOver goes from false to true
   only in a frame, and then by the lateral bound, the floor threshold or a
   crash at a tunnel cell; it goes from true to false only by a Space keydown.
   No other frame, timer callback, keyup, arrow key or level load changes
   it. *)
C8_GameOverMachine ==
    /\ (~pre.gameOver /\ game.gameOver) =>
          /\ lastOp.op = "frame"
          /\ \/ Abs(game.shipPosition.x) > 10500
             \/ game.shipPosition.y < FloorLimit
             \/ /\ game.shipPosition = pre.shipPosition
                /\ C8_OverTunnel(CentreOf(pre.shipPosition))
    /\ (pre.gameOver /\ ~game.gameOver) => SpaceDown

\* a Space keydown has restarted a game that a tunnel crash had ended
C8_Witness ==
    /\ rev = "P0"
    /\ SpaceDown /\ pre.gameOver /\ ~game.gameOver
    /\ Abs(pre.shipPosition.x) <= 10500
    /\ pre.shipPosition.y >= FloorLimit
    /\ fetchState = "resolved"

(* C9: game-over freeze (part_000).  A frame that starts with gameOver true
   leaves shipPosition, shipVelocity, shipRotation, isJumping and
   jumpVelocity unchanged. *)
C9_GameOverFreeze ==
    (lastOp.op = "frame" /\ pre.gameOver) => Motion(game) = Motion(pre)

(* C10 as claimed: Space key (part_000).  While the game is over a Space
   keydown restarts and starts no jump; while it runs and the ship is
   grounded it always starts a jump with jumpVelocity 0.4; while the ship is
   airborne it changes nothing. *)
C10_SpaceKey ==
    SpaceDown =>
        /\ pre.gameOver =>
              /\ ~game.gameOver /\ ~game.isJumping /\ game.jumpVelocity = 0
              /\ game.shipPosition = StartPosition
        /\ (~pre.gameOver /\ ~pre.isJumping) =>
              game.isJumping /\ game.jumpVelocity = 400
        /\ (~pre.gameOver /\ pre.isJumping) => Ship(game) = pre

(* C10 as amended: as above, but the grounded ship starts a jump only when
   isInTunnel is false; while isInTunnel is true and the game runs, a Space
   keydown changes nothing. *)
C10_SpaceKeyOutsideTunnel ==
    SpaceDown =>
        /\ pre.gameOver =>
              /\ ~game.gameOver /\ ~game.isJumping /\ game.jumpVelocity = 0
              /\ game.shipPosition = StartPosition
        /\ (~pre.gameOver /\ ~pre.isJumping /\ ~pre.isInTunnel) =>
              game.isJumping /\ game.jumpVelocity = 400
        /\ (~pre.gameOver /\ pre.isInTunnel) => Ship(game) = pre
        /\ (~pre.gameOver /\ pre.isJumping) => Ship(game) = pre

\* Space pressed by a grounded ship inside a tunnel: nothing happens
C10_Witness ==
    /\ rev = "P0"
    /\ SpaceDown
    /\ ~pre.gameOver /\ ~pre.isJumping /\ pre.isInTunnel
    /\ ~game.isJumping

(* C11: steering state (game.js, first class).  In every frame executed while
   the game runs, shipRotation agrees with the key flags: -0.25 with only
   leftKeyPressed, +0.25 with only rightKeyPressed, 0 with neither. *)
C11_SteeringAgrees ==
    (rev = "G1" /\ RunningFrame) =>
        /\ (pre.leftKeyPressed /\ ~pre.rightKeyPressed) => pre.shipRotation = 0 - 250
        /\ (pre.rightKeyPressed /\ ~pre.leftKeyPressed) => pre.shipRotation = 250
        /\ (~pre.leftKeyPressed /\ ~pre.rightKeyPressed) => pre.shipRotation = 0

(* C12: level fetch failure (game.js, first class).  Once the fetch has
   rejected, levelData stays null and the track stays empty in every later
   state, restarts included; the game only ever ends by y < -5; and every
   play session does end: a running game always leads to a game over. *)
C12_FetchFailure ==
    /\ [](fetchState = "rejected" =>
             /\ game.levelData = <<>>
             /\ game.track = <<>>
             /\ (RunningFrame /\ game.gameOver) => game.shipPosition.y < FloorLimit)
    /\ ((fetchState = "rejected" /\ ~game.gameOver) ~> game.gameOver)

\* after the rejection a game over has been answered by a restart
C12_Witness ==
    /\ fetchState = "rejected"
    /\ lastOp.op = "frame" /\ pre.gameOver /\ ~game.gameOver
    /\ pre.shipPosition.y < FloorLimit
    /\ game.shipPosition = StartPosition
    /\ game.track = <<>>

\* the forward displacement of a frame before any special cell is met
C13_StartStep == IF rev = "G1" THEN G1_fields.forwardSpeed ELSE baseSpeed.forward

\* the frame started with the grounded ship over a cell written as block
C13_StartedOver(block) ==
    /\ ~pre.isJumping
    /\ \E i \in 1..Len(game.track) :
          /\ game.track[i].block = block
          /\ UnderFoot(game.track[i], CentreOf(pre.shipPosition))

(* C13: speed-modifier cells (both revisions).  A frame of a ship that is
   driving over a '9' cell moves it forward by more than the frames before
   the cell did, and a frame over a '0' cell by less. *)
C13_SpeedModifiers ==
    RunningFrame =>
        LET step == pre.shipPosition.z - game.shipPosition.z
        IN  /\ C13_StartedOver("9") => step > C13_StartStep
            /\ C13_StartedOver("0") => step < C13_StartStep

\* the rows of the level data between the <end> and the <start> line
C14_RowsBetween ==
    LET lines == SplitLines(response, <<>>)
    IN  SubSeq(lines, 2, Len(lines) - 1)

\* the digit characters of a row
C14_DigitsOf(row) == Cardinality({c \in 1..Len(row) : row[c] \in Digits})

RECURSIVE C14_Sum(_, _)
C14_Sum(rows, i) ==
    IF i > Len(rows) THEN 0 ELSE C14_DigitsOf(rows[i]) + C14_Sum(rows, i + 1)

(* C14: parsing of gaps (game.js, second class).  A space inside a level row
   produces no track segment: the number of segments built equals the number
   of digit characters in the rows between the <end> and <start> markers. *)
C14_SegmentsAreDigits ==
    (rev = "G2" /\ lastOp.op = "init") =>
        Len(game.track) = C14_Sum(C14_RowsBetween, 1)

(* C15: the track is destroyed and regenerated wholesale (part_000).  After
   any number of game-over/restart cycles the scene holds only objects that
   the most recent generateTrackFromLevel call created. *)
C15_SceneIsLatestTrack ==
    rev = "P0" => \A o \in game.scene : o.gen = game.generation

\* the vertical velocity the last frame applied to y: part_000 has taken the
\* gravity of fixedUpdate off it first
C16_AppliedVelocity ==
    IF rev = "G1" \/ pre.isInTunnel THEN pre.jumpVelocity
    ELSE pre.jumpVelocity - baseSpeed.gravity

(* C16: landing only while descending (both revisions).  A frame in which
   the landing check clears isJumping and snaps y to a segment top is a frame
   in which the velocity applied to y is negative; an ascending ship is
   never snapped onto a segment. *)
C16_LandsDescending ==
    (/\ RunningFrame
     /\ pre.isJumping /\ ~game.isJumping /\ ~game.isInTunnel)
    => C16_AppliedVelocity < 0

(* C17 as claimed: constant gravity (game.js, first class).  In every frame
   in which the ship is airborne and does not land, jumpVelocity decreases by
   the same amount, the gravity term 0.01 of the ascent, also when the ship
   is descending. *)
C17_ConstantGravity ==
    (rev = "G1" /\ RunningFrame /\ pre.isJumping /\ game.isJumping) =>
        pre.jumpVelocity - game.jumpVelocity = 10

(* C17 as amended: in such a frame jumpVelocity decreases by 0.01 when the
   result is not negative, and by 0.02 when jumpVelocity - 0.01 is negative:
   a falling ship is accelerated twice as much as a rising one is slowed. *)
C17_GravityTwoRates ==
    (rev = "G1" /\ RunningFrame /\ pre.isJumping /\ game.isJumping) =>
        game.jumpVelocity =
            IF pre.jumpVelocity - 10 < 0 THEN pre.jumpVelocity - 20
            ELSE pre.jumpVelocity - 10

\* a jump passes its apex: the velocity goes from 0 to -0.02 in one frame
C17_Witness ==
    /\ rev = "G1" /\ RunningFrame /\ pre.isJumping /\ game.isJumping
    /\ pre.jumpVelocity = 0
    /\ game.jumpVelocity = 0 - 20
    /\ game.shipPosition.y > 1000

\* some segment under the footprint has its top exactly at the ship's y
C18_OnATop ==
    \E i \in 1..Len(game.track) :
        /\ Abs(CentreOf(game.shipPosition).x - game.track[i].px) < 1750
        /\ Abs(CentreOf(game.shipPosition).z - game.track[i].pz) < 2250
        /\ game.track[i].py + game.track[i].sy = game.shipPosition.y

(* C18 as claimed: grounded/airborne invariant (game.js, first class).  At
   the end of every frame that ends with the game running, isJumping is false if and
   only if some segment under the footprint has its top exactly at the
   ship's y. *)
C18_GroundedOnTop ==
    (rev = "G1" /\ lastOp.op = "frame" /\ ~game.gameOver) =>
        (~game.isJumping <=> C18_OnATop)

(* C18 as amended: the equivalence holds at the end of every frame that
   starts and ends with the game running.  The frame that answers a game over
   with a restart ends with the ship at the start position, y = 0.2, with
   isJumping false, whatever lies under it. *)
C18_GroundedOnTopWhileRunning ==
    /\ (rev = "G1" /\ RunningFrame /\ ~game.gameOver) =>
          (~game.isJumping <=> C18_OnATop)
    /\ (rev = "G1" /\ lastOp.op = "frame" /\ pre.gameOver /\ ~game.gameOver) =>
          (~game.isJumping /\ game.shipPosition = StartPosition)

\* the ship drives on the top of a raised block
C18_Witness ==
    /\ rev = "G1" /\ RunningFrame /\ ~game.gameOver
    /\ ~pre.isJumping /\ ~game.isJumping
    /\ game.shipPosition.y = 2000
    /\ C18_OnATop

(* C19 as claimed: the ship always advances (part_000).  Every frame that ends with the
   game running has decreased z by exactly the forward speed, 0.35, whatever
   the steering, the jump state and the tunnel state; z increases only when
   restartGame resets it to 0; no key event changes z. *)
C19_FrameAdvances ==
    (rev = "P0" /\ lastOp.op = "frame" /\ ~game.gameOver) =>
        game.shipPosition.z = pre.shipPosition.z - 350

\* the last step was a call of restartGame: Space pressed at game over
C19_Restarted == SpaceDown /\ pre.gameOver

C19_IncreaseOnlyByRestart ==
    (rev = "P0" /\ game.shipPosition.z > pre.shipPosition.z) => C19_Restarted

C19_KeysLeaveZ ==
    (rev = "P0" /\ lastOp.op \in {"keydown", "keyup"}) =>
        game.shipPosition.z = pre.shipPosition.z

C19_AlwaysAdvances ==
    C19_FrameAdvances /\ C19_IncreaseOnlyByRestart /\ C19_KeysLeaveZ

(* C19 as amended: every frame that ends with the game running has decreased
   z by exactly 0.35; z increases only when restartGame or the completion of
   loadLevel resets the position, and then it becomes 0; a key event leaves z
   alone unless it is the Space keydown at game over, which calls
   restartGame. *)
C19_AdvancesBetweenResets ==
    /\ C19_FrameAdvances
    /\ (rev = "P0" /\ game.shipPosition.z > pre.shipPosition.z) =>
          /\ C19_Restarted \/ lastOp.op = "load"
          /\ game.shipPosition.z = 0
    /\ (rev = "P0" /\ lastOp.op \in {"keydown", "keyup"} /\ ~C19_Restarted) =>
          game.shipPosition.z = pre.shipPosition.z

\* a frame in a tunnel, with a steering key held, has advanced the ship
C19_Witness ==
    /\ rev = "P0" /\ lastOp.op = "frame" /\ ~game.gameOver
    /\ game.isInTunnel
    /\ game.leftKeyPressed \/ game.rightKeyPressed
    /\ game.shipPosition.z = pre.shipPosition.z - 350

(* C20 as claimed: tunnel-edge crash (part_000).  In a frame that starts with the game
   running and isInTunnel false, with the ship over a tunnel floor and its y
   within 0.3 of the floor top, the game ends in that frame, before any
   movement, if and only if the ship centre is more than 1.05 to the side of
   the tunnel centre; otherwise the ship enters the tunnel.  A frame that
   starts with isInTunnel true has no edge crash. *)
C20_FloorsEntered ==
    {i \in 1..Len(game.track) :
        /\ game.track[i].isTunnelBlock
        /\ UnderFoot(game.track[i], CentreOf(pre.shipPosition))
        /\ Abs(pre.shipPosition.y - SegmentTop(game.track[i])) < 300}

C20_AtEdge ==
    \E i \in C20_FloorsEntered :
        Abs(pre.shipPosition.x - game.track[i].px) > 1050

C20_EdgeCrashOnEntry ==
    (rev = "P0" /\ RunningFrame /\ ~pre.isInTunnel /\ C20_FloorsEntered # {}) =>
        /\ game.gameOver <=> C20_AtEdge
        /\ game.gameOver => game.shipPosition = pre.shipPosition
        /\ ~game.gameOver => game.isInTunnel

C20_NoCrashInside ==
    (rev = "P0" /\ RunningFrame /\ pre.isInTunnel /\ C20_FloorsEntered # {}) =>
        ~game.gameOver

C20_TunnelEdgeCrash == C20_EdgeCrashOnEntry /\ C20_NoCrashInside

(* C20 as amended: in a frame that starts with the game running and
   isInTunnel false, with the ship over a tunnel floor and its y within 0.3 of
   the floor top, the game ends in that frame, before any movement, if and
   only if the ship centre is at least 1.05 to the side of the tunnel centre
   (the bound the code computes is 1.0499999999999998); otherwise the ship
   enters the tunnel.  A frame that starts with isInTunnel true and the ship
   at a tunnel floor does not end the game. *)
C20_AtSafeWidth ==
    \E i \in C20_FloorsEntered :
        Abs(pre.shipPosition.x - game.track[i].px) >= 1050

C20_EdgeCrashFromSafeWidth ==
    /\ (rev = "P0" /\ RunningFrame /\ ~pre.isInTunnel /\ C20_FloorsEntered # {}) =>
          /\ game.gameOver <=> C20_AtSafeWidth
          /\ game.gameOver => game.shipPosition = pre.shipPosition
          /\ ~game.gameOver => game.isInTunnel
    /\ C20_NoCrashInside

\* the ship met a tunnel mouth 1.05 off centre and the game ended where it stood
C20_Witness ==
    /\ rev = "P0" /\ RunningFrame /\ ~pre.isInTunnel
    /\ C20_AtSafeWidth /\ ~C20_AtEdge
    /\ game.gameOver
    /\ game.shipPosition = pre.shipPosition

(* C21: tunnel cross-section test (game.js first class, part_000).  Every
   track entry made from a tunnel cell, '5' or '6', is one for which
   checkCollisions takes the tunnel branch: the entry's geometry is a
   CylinderGeometry, so the grounded ship is tested against the curve and not
   against the box. *)
C21_TunnelEntries == {i \in 1..Len(game.track) : game.track[i].block \in {"5", "6"}}

C21_TunnelTestApplies ==
    (rev \in {"G1", "P0"}) =>
        \A i \in C21_TunnelEntries : game.track[i].cylinder

(* C22 as claimed: raised block met while grounded (game.js first class).
   When a ship grounded on normal track, y = 0.4, moves so that its footprint
   lies over a raised cell, '7' or '8', then in that frame y is unchanged,
   gameOver stays false and the ship starts falling: isJumping true,
   jumpVelocity -0.1. *)
C22_MeetsRaised ==
    /\ rev = "G1" /\ RunningFrame
    /\ ~pre.isJumping /\ pre.shipPosition.y = 400
    /\ \E i \in 1..Len(game.track) :
          /\ game.track[i].block \in {"7", "8"}
          /\ UnderFoot(game.track[i], CentreOf(game.shipPosition))

C23_EndedByBound ==
    /\ rev = "G1" /\ RunningFrame /\ game.gameOver
    /\ Abs(game.shipPosition.x) * 10 > trackWidth * 1000 * 15

C23_BoundMeansDeparture ==
    C23_EndedByBound =>
        ~ \E i \in 1..Len(game.track) :
              UnderFoot(game.track[i], CentreOf(game.shipPosition))

(* C24: no false fall on contiguous track (part_000).  On a level whose
   centre lane has a normal cell in every row, with no key events, a frame
   that starts with the ship grounded and its centre short of the far edge of
   the last row ends with the ship grounded: the seam between two rows never
   starts a fall. *)
C24_LastRowEdge ==
    0 - ((Len(LevelRows(game.levelData)) - 1) * RowStep + HalfDepth)

C24_NoFalseFall ==
    (/\ rev = "P0" /\ fetchState = "resolved" /\ keysLeft = 0
     /\ RunningFrame /\ ~pre.isJumping
     /\ CentreOf(pre.shipPosition).z > C24_LastRowEdge) =>
        ~game.isJumping

(* C25: no falling through the landing band (game.js first class).  At every
   height a jump from a segment top reaches, a descending ship never passes
   in one frame from above the landing band of a segment under its footprint,
   y > T + 0.2, to below it, y <= T - 0.5; and a jump started without
   steering on the straight lane, with the lane long enough ahead, leads to
   the ship grounded again at y = 0.4 with jumpVelocity 0. *)
C25_PassedThrough ==
    \E i \in 1..Len(game.track) :
        /\ UnderFoot(game.track[i], CentreOf(game.shipPosition))
        /\ pre.shipPosition.y > SegmentTop(game.track[i]) + 200
        /\ game.shipPosition.y <= SegmentTop(game.track[i]) - 500

\* Space has just started a jump from the lane, with the landing 10.2 ahead
\* still over the lane
C25_JumpStarted ==
    /\ rev = "G1" /\ response = LevelLane /\ fetchState = "resolved"
    /\ SpaceDown /\ ~pre.isJumping /\ ~game.gameOver
    /\ game.isJumping /\ game.jumpVelocity = 300
    /\ game.shipPosition.y = 400
    /\ CentreOf(game.shipPosition).z > 0 - 5000

C25_Landed ==
    ~game.isJumping /\ game.shipPosition.y = 400 /\ game.jumpVelocity = 0

C25_NoFallThrough ==
    /\ []((rev = "G1" /\ RunningFrame /\ pre.isJumping) => ~C25_PassedThrough)
    /\ (C25_JumpStarted ~> C25_Landed)

\* a jump from the raised block, the highest start, has come down at its
\* fastest onto a segment: the ship was above the band and is now on the top
C25_Witness ==
    /\ rev = "G1" /\ RunningFrame /\ pre.isJumping
    /\ pre.jumpVelocity <= 0 - 480
    /\ ~game.isJumping /\ ~game.gameOver
    /\ \E i \in 1..Len(game.track) :
          /\ UnderFoot(game.track[i], CentreOf(game.shipPosition))
          /\ pre.shipPosition.y > SegmentTop(game.track[i]) + 200
          /\ game.shipPosition.y = SegmentTop(game.track[i])

(* C26: the fade timers of the game-over text (part_000).  In every
   interleaving of crashes, Space restarts and timer callbacks at most one
   fade-in interval is running and gameOverFadeInterval is its handle; every
   interval that is started is cleared in the end, after its 20 steps or by a
   restart.  The formula is the first half, which the second half needs: an
   interval the field does not refer to is never cleared. *)
C26_OneFadeInterval ==
    (rev = "P0" /\ "intervals" \in DOMAIN game) =>
        /\ Cardinality(game.intervals) <= 1
        /\ \A i \in game.intervals : game.gameOverFadeInterval = i.id

(* C27: in-tunnel invariant (part_000).  Whenever isInTunnel is true after a
   frame, the ship is grounded with jumpVelocity 0 and shipRotation 0 at
   y = 0.2, the top of the tunnel floor; an arrow or Space keydown received
   while isInTunnel is true changes none of these; and a frame that runs in a
   tunnel takes the lateral distance to the tunnel centre to 0.9 times what
   it was (to the thousandth the model keeps), whatever keys are held. *)
C27_TunnelPose(t) ==
    /\ ~t.isJumping /\ t.jumpVelocity = 0 /\ t.shipRotation = 0
    /\ t.shipPosition.y = 200

\* the tunnel floor the frame centred the ship on: the last one in track
\* order under the centre the frame started with
C27_TunnelCentre ==
    LET floors == {i \in P0_floorsUnder(game, CentreOf(pre.shipPosition)) :
                      Abs(pre.shipPosition.y - SegmentTop(game.track[i])) < 300}
    IN  game.track[CHOOSE i \in floors : \A j \in floors : j <= i].px

C27_InTunnel ==
    /\ (rev = "P0" /\ lastOp.op = "frame" /\ game.isInTunnel) =>
          C27_TunnelPose(game)
    /\ (rev = "P0" /\ lastOp.op = "keydown" /\ pre.isInTunnel) =>
          /\ game.isJumping = pre.isJumping
          /\ game.jumpVelocity = pre.jumpVelocity
          /\ game.shipRotation = pre.shipRotation
          /\ game.shipPosition.y = pre.shipPosition.y
    /\ (rev = "P0" /\ RunningFrame /\ game.isInTunnel /\ ~game.gameOver) =>
          Abs(10 * (game.shipPosition.x - C27_TunnelCentre)
                - 9 * (pre.shipPosition.x - C27_TunnelCentre)) < 10

\* a frame in a tunnel, entered off centre with a steering key held
C27_Witness ==
    /\ rev = "P0" /\ RunningFrame /\ game.isInTunnel /\ pre.isInTunnel
    /\ ~game.gameOver
    /\ game.leftKeyPressed \/ game.rightKeyPressed
    /\ pre.shipPosition.x # C27_TunnelCentre
    /\ C27_TunnelPose(game)

(* C28 as claimed: the tunnel roof is solid (part_000).  An airborne ship over a tunnel
   cell that descends toward it ends the game with the tunnel-top crash: it
   never comes to rest on the floor of that cell, grounded or in the tunnel,
   out of the air above the cell. *)
\* the tunnel floors under the centre the frame started with
C28_TunnelUnder == P0_floorsUnder(game, CentreOf(pre.shipPosition))

\* the frame started with the ship in the air over a tunnel cell, above
\* floor level and descending
C28_DescendsOnTunnel ==
    /\ rev = "P0" /\ RunningFrame
    /\ pre.isJumping /\ ~pre.isInTunnel
    /\ pre.jumpVelocity - baseSpeed.gravity <= 0
    /\ C28_TunnelUnder # {}
    /\ \A i \in C28_TunnelUnder :
          pre.shipPosition.y >= SegmentTop(game.track[i]) + 300

C28_RoofIsSolid ==
    C28_DescendsOnTunnel =>
        /\ \A i \in C28_TunnelUnder :
              ~(~game.isJumping /\ game.shipPosition.y = SegmentTop(game.track[i]))
        /\ ~game.isInTunnel

(* C28 as amended: an airborne ship over a tunnel cell at roof height, within
   0.5 of the roof top or above it, never gets below that band over the cell:
   the frame that finds it in the band and not rising ends the game where the
   ship stands.  So a ship that comes to rest on a tunnel floor out of the air
   started that frame below the band: it flew in through the mouth. *)
C28_RoofBand(i) == SegmentTop(game.track[i]) + 3500 - 500

C28_RoofSolidAtRoofHeight ==
    /\ (/\ rev = "P0" /\ RunningFrame /\ pre.isJumping /\ ~game.gameOver
        /\ \E i \in C28_TunnelUnder : pre.shipPosition.y >= C28_RoofBand(i)) =>
          /\ game.isJumping /\ ~game.isInTunnel
          /\ \A i \in C28_TunnelUnder : game.shipPosition.y >= C28_RoofBand(i)
    /\ (/\ C28_DescendsOnTunnel
        /\ \E i \in C28_TunnelUnder :
              /\ pre.shipPosition.y >= C28_RoofBand(i)
              /\ pre.shipPosition.y <= C28_RoofBand(i) + 1000) =>
          /\ game.gameOver
          /\ game.shipPosition = pre.shipPosition
    /\ (/\ C28_DescendsOnTunnel /\ ~game.gameOver
        /\ \E i \in C28_TunnelUnder :
              ~game.isJumping /\ game.shipPosition.y = SegmentTop(game.track[i])) =>
          \A i \in C28_TunnelUnder : pre.shipPosition.y < C28_RoofBand(i)

\* a falling ship met the roof band of the tunnel under it and crashed
C28_Witness ==
    /\ C28_DescendsOnTunnel
    /\ \E i \in C28_TunnelUnder :
          /\ pre.shipPosition.y >= C28_RoofBand(i) + 200
          /\ pre.shipPosition.y <= C28_RoofBand(i) + 1000
    /\ pre.jumpVelocity < 0
    /\ game.gameOver

(* C29: every session ends (game.js first class).  On every level and with
   every sequence of key events, while frames keep coming a running game
   leads to a game over; past the last row of the track a frame leaves the
   ship in the air or ends the game, so nothing can keep it in play. *)
C29_PastTheTrack ==
    CentreOf(game.shipPosition).z <=
        0 - ((Len(LevelRows(game.levelData)) - 1) * RowStep + HalfDepth)

C29_SessionEnds ==
    /\ []((rev = "G1" /\ RunningFrame /\ C29_PastTheTrack) =>
             (game.isJumping \/ game.gameOver))
    /\ ((rev = "G1" /\ ~game.gameOver) ~> game.gameOver)

\* a ship that drove off the far end of a loaded track has fallen to its end
C29_Witness ==
    /\ rev = "G1" /\ fetchState = "resolved" /\ game.track # <<>>
    /\ RunningFrame /\ game.gameOver
    /\ C29_PastTheTrack
    /\ game.shipPosition.y < FloorLimit

(* C30: gaps are harmless in the two earliest revisions (game.js second
   class, part_001).  The ship is never below the ground height (0.2, resp.
   0), a game is over only with the ship beyond the lateral bound (4.5, resp.
   1), a frame moves the ship exactly as it would with an empty track, and a
   game that is over stays over. *)
C30_Ground == IF rev = "G2" THEN G2_segmentHeight ELSE 0

C30_BeyondLateralBound ==
    IF rev = "G2"
    THEN Abs(game.shipPosition.x) * 10 > G2_trackWidth * 1000 * 15
    ELSE Abs(game.shipPosition.x) * 2 > P1_trackWidth * 1000

\* the ship fields the last frame yields from the state before it when the
\* track is empty
C30_FrameWithoutTrack ==
    LET bare == [track |-> <<>>] @@ pre @@ game
    IN  IF rev = "G2" THEN Ship(G2_updateShip(bare)) ELSE Ship(P1_updateShip(bare))

============================================================================
